---- MODULE Spec2Model ----
(***************************************************************************)
(* Bare/dressed spectrum lookup of scqubits (scqubits/core/spec_lookup.py):*)
(* the bare label enumerator, the two overlap-based mappers, the lookup    *)
(* table builders and the query operations of SpectrumLookup and of        *)
(* SpectrumLookupMixin.                                                    *)
(*                                                                         *)
(* Conventions.  Python lists and tuples are TLA+ sequences (1-based), so  *)
(* the Python position p is the TLA+ index p + 1; numpy arrays are         *)
(* functions over 0..n-1.  Amplitudes are reals given in tenths (8 is 0.8, *)
(* -6 is -0.6), so a squared magnitude is given in hundredths; energies    *)
(* are given in tenths as well.  Python's None is the value None below,    *)
(* which is no index.                                                      *)
(***************************************************************************)
EXTENDS Integers, Sequences, FiniteSets, TLC

VARIABLES
    p0,                     \* Dcpl: dimension of the phi degree of freedom
    q0,                     \* Dcpl: dimension of the theta degree of freedom
    N0,                     \* Dcpl: dimension of the varphi degree of freedom
    host,                   \* the classes whose objects are under study
    subsystem_dims,         \* _hilbertspace.subsystem_dims
    out_of_sync,            \* _out_of_sync
    state_table,            \* SpectrumLookup._dressed_specdata.state_table
    energy_table,           \* SpectrumLookup._dressed_specdata.energy_table
    bare_specdata_list,     \* SpectrumLookup._bare_specdata_list
    canonical_bare_labels,  \* SpectrumLookup._canonical_bare_labels
    dressed_indices,        \* SpectrumLookup._dressed_indices
    io_data,                \* the serialised fields of the SpectrumLookup
    restored,               \* the SpectrumLookup that deserialize returned
    parameters_counts,      \* mixin host: _parameters.counts
    data_evecs,             \* mixin host: _data["evecs"]
    data_evals,             \* mixin host: _data["evals"]
    data_bare_evecs,        \* mixin host: _data["bare_evecs"]
    data_bare_evals,        \* mixin host: _data["bare_evals"]
    data_dressed_indices,   \* mixin host: _data["dressed_indices"]
    evals_count,            \* mixin host: _evals_count
    ignore_hybridization,   \* mixin host: _ignore_hybridization
    current_param_indices,  \* mixin host: _current_param_indices
    lookup_indices,         \* generate_lookup: the indices its iterator still holds
    lookup_rows,            \* generate_lookup: its array of mappings, by grid point
    mapper_calls,           \* calls of the mapper by generate_lookup, by grid point
    mappers,                \* the runs of the mapper, one per grid point, when unordered
    overlap_matrix,         \* local of SpectrumLookupMixin._generate_single_mapping
    mapping,                \* local dressed_indices of the same method
    dressed_index,          \* its loop variable
    pc,                     \* position of the running method
    last_op,                \* the operation that ran last
    last_args,              \* the arguments it was called with
    result                  \* what it returned or raised

\* the attributes of a Dcpl
dcpl_vars == <<p0, q0, N0>>
\* the fields of a SpectrumLookup
lookup_vars == <<state_table, energy_table, bare_specdata_list,
                 canonical_bare_labels, dressed_indices>>
\* the serialised form and the instance made from it
io_vars == <<io_data, restored>>
\* the attributes of the host of the mixin
sweep_vars == <<parameters_counts, data_evecs, data_evals, data_bare_evecs,
                data_bare_evals, data_dressed_indices, evals_count,
                ignore_hybridization, current_param_indices>>
\* the locals of the running mapper
mapper_vars ==
    <<lookup_indices, lookup_rows, mapper_calls, mappers, overlap_matrix, mapping,
      dressed_index, pc>>
\* the record of the last call
call_vars == <<last_op, last_args, result>>

vars == <<dcpl_vars, host, subsystem_dims, out_of_sync, lookup_vars, io_vars, sweep_vars,
          mapper_vars, call_vars>>

(***************************************************************************)
(* Bounds of the model                                                     *)
(***************************************************************************)
MaxSubsys == 3
MaxSubsysDim == 3
MaxDim == 2
MaxEvals == 2

\* amplitudes drawn for eigenvector components, in tenths
Amps == {0, 6, -8}

None == -1

\* _OVERLAP_THRESHOLD = 0.5, in hundredths
OVERLAP_THRESHOLD == 50

\* values of variables no method has assigned yet
Unset == <<>>

(***************************************************************************)
(* Bare label enumerator                                                   *)
(***************************************************************************)
\* range(n)
Range(n) == [i \in 1..n |-> i - 1]

\* [x + (y,) for y in pool]
ExtendOne(x, pool) == [j \in 1..Len(pool) |-> Append(x, pool[j])]

RECURSIVE ExtendAll(_, _)
\* [x + (y,) for x in result for y in pool]
ExtendAll(res, pool) ==
    IF res = <<>> THEN <<>>
    ELSE ExtendOne(Head(res), pool) \o ExtendAll(Tail(res), pool)

RECURSIVE ProductFrom(_, _)
ProductFrom(res, pools) ==
    IF pools = <<>> THEN res
    ELSE ProductFrom(ExtendAll(res, Head(pools)), Tail(pools))

\* a first pool that varies fastest instead of the last one
ItertoolsProductFirstFastest(pools) ==
    LET n == Len(pools)
        rev == ProductFrom(<< <<>> >>, [i \in 1..n |-> pools[n + 1 - i]])
    IN  [p \in 1..Len(rev) |-> [i \in 1..n |-> rev[p][n + 1 - i]]]

\* list(itertools.product(*pools))
ItertoolsProduct(pools) == ProductFrom(<< <<>> >>, pools)

\* SpectrumLookup._generate_bare_labels
GenerateBareLabels(dim_list) ==
    LET subsys_count == Len(dim_list)
        basis_label_ranges == [i \in 1..subsys_count |-> Range(dim_list[i])]
    IN  ItertoolsProduct(basis_label_ranges)

\* SpectrumLookupMixin._bare_product_states_labels
BareProductStatesLabels(dims) ==
    ItertoolsProduct([i \in 1..Len(dims) |-> Range(dims[i])])

RECURSIVE SeqProduct(_)
SeqProduct(s) == IF s = <<>> THEN 1 ELSE Head(s) * SeqProduct(Tail(s))

\* _hilbertspace.dimension
Dimension(dims) == SeqProduct(dims)

(***************************************************************************)
(* Overlap-based mappers                                                   *)
(***************************************************************************)
\* spec_utils.convert_evecs_to_ndarray: a fresh array whose row d is
\* eigenvector d and whose column b is the bare basis position b
ConvertEvecsToNdarray(evecs) ==
    [d \in 0..(Len(evecs) - 1) |->
        [b \in 0..(Len(evecs[d + 1]) - 1) |-> evecs[d + 1][b + 1]]]

\* np.abs of one amplitude
Abs(x) == IF x < 0 THEN -x ELSE x

\* np.abs of a one-dimensional array
AbsArray(v) == [i \in DOMAIN v |-> Abs(v[i])]

RECURSIVE ArgmaxFrom(_, _, _)
ArgmaxFrom(v, i, best) ==
    IF i \notin DOMAIN v THEN best
    ELSE ArgmaxFrom(v, i + 1, IF v[i] > v[best] THEN i ELSE best)

\* an argmax that keeps the last of several equal maxima
ArgmaxLast(v) ==
    CHOOSE i \in DOMAIN v :
        /\ \A j \in DOMAIN v : v[j] <= v[i]
        /\ \A j \in DOMAIN v : j > i => v[j] < v[i]

\* ndarray.argmax(): the first position of the maximum
Argmax(v) == ArgmaxFrom(v, 1, 0)

\* overlap_matrix[:, bare_basis_index]
Column(M, b) == [d \in DOMAIN M |-> M[d][b]]

\* a threshold test on the overlap itself, its square forgotten
ExceedsThresholdUnsquared(max_overlap) == max_overlap * 10 > OVERLAP_THRESHOLD

\* a threshold test against half the threshold
ExceedsHalfThreshold(max_overlap) == max_overlap * max_overlap * 2 > OVERLAP_THRESHOLD

\* max_overlap ** 2 > _OVERLAP_THRESHOLD
ExceedsThreshold(max_overlap) == max_overlap * max_overlap > OVERLAP_THRESHOLD

\* the body of the loop of SpectrumLookup._generate_single_mapping: the
\* entry appended for bare_basis_index
MappingEntry(M, bare_basis_index) ==
    LET max_position == Argmax(AbsArray(Column(M, bare_basis_index)))
        max_overlap == Abs(M[max_position][bare_basis_index])
    IN  IF ExceedsThreshold(max_overlap) THEN max_position ELSE None

\* a bare-indexed mapper that lists the bare positions from the last to the
\* first
GenerateSingleMappingReversed(evecs, dimension) ==
    LET M == ConvertEvecsToNdarray(evecs)
    IN  [pos \in 1..dimension |-> MappingEntry(M, dimension - pos)]

\* SpectrumLookup._generate_single_mapping(param_index) for the states
\* state_table[param_index]
GenerateSingleMapping(evecs, dimension) ==
    LET M == ConvertEvecsToNdarray(evecs)
    IN  [pos \in 1..dimension |-> MappingEntry(M, pos - 1)]

\* a step that leaves the column of the assigned position in the matrix
KeepColumn(M, max_position) == M

\* overlap_matrix[:, max_position] = 0
ZeroColumn(M, max_position) ==
    [d \in DOMAIN M |-> [b \in DOMAIN M[d] |-> IF b = max_position THEN 0 ELSE M[d][b]]]

\* a loop body that assigns the dressed index to every position attaining
\* the maximum
MixinMappingStepAllMaxima(M, indices, d, ignore) ==
    LET max_position == Argmax(AbsArray(M[d]))
        max_overlap == Abs(M[d][max_position])
    IN  IF ignore \/ ExceedsThreshold(max_overlap)
        THEN [overlap_matrix |-> ZeroColumn(M, max_position),
              dressed_indices |->
                  [pos \in DOMAIN indices |->
                      IF Abs(M[d][pos - 1]) = max_overlap THEN d ELSE indices[pos]]]
        ELSE [overlap_matrix |-> M, dressed_indices |-> indices]

\* a loop body that stores the dressed index counted from one
MixinMappingStepOneBased(M, indices, d, ignore) ==
    LET max_position == Argmax(AbsArray(M[d]))
        max_overlap == Abs(M[d][max_position])
    IN  IF ignore \/ ExceedsThreshold(max_overlap)
        THEN [overlap_matrix |-> ZeroColumn(M, max_position),
              dressed_indices |-> [indices EXCEPT ![max_position + 1] = d + 1]]
        ELSE [overlap_matrix |-> M, dressed_indices |-> indices]

\* the body of the loop of SpectrumLookupMixin._generate_single_mapping for
\* the dressed index d
MixinMappingStep(M, indices, d, ignore) ==
    LET max_position == Argmax(AbsArray(M[d]))
        max_overlap == Abs(M[d][max_position])
    IN  IF ignore \/ ExceedsThreshold(max_overlap)
        THEN [overlap_matrix |-> ZeroColumn(M, max_position),
              dressed_indices |-> [indices EXCEPT ![max_position + 1] = d]]
        ELSE [overlap_matrix |-> M, dressed_indices |-> indices]

RECURSIVE MixinMappingLoop(_, _, _, _, _)
MixinMappingLoop(M, indices, d, count, ignore) ==
    IF d >= count THEN indices
    ELSE LET st == MixinMappingStep(M, indices, d, ignore)
         IN  MixinMappingLoop(st.overlap_matrix, st.dressed_indices, d + 1, count, ignore)

\* SpectrumLookupMixin._generate_single_mapping(param_indices) for the
\* states _data["evecs"][param_indices]
MixinGenerateSingleMapping(evecs, dimension, count, ignore) ==
    MixinMappingLoop(ConvertEvecsToNdarray(evecs),
                     [pos \in 1..dimension |-> None], 0, count, ignore)

(***************************************************************************)
(* Python values: what a call returns or raises, and the arguments the     *)
(* callers pass                                                            *)
(***************************************************************************)
\* no call made yet
NoResult == [kind |-> "nothing", val |-> <<>>]
\* return None
ReturnedNone == [kind |-> "None", val |-> <<>>]
\* return of a dressed index (an int)
ReturnedInt(i) == [kind |-> "int", val |-> i]
\* return of a bare label (a tuple), of a list or of eigendata
ReturnedLabel(l) == [kind |-> "label", val |-> l]
ReturnedList(l) == [kind |-> "list", val |-> l]
ReturnedData(x) == [kind |-> "data", val |-> x]
\* return of an array: its shape and its element at each index tuple
ReturnedArray(a) == [kind |-> "array", val |-> a]
\* return of an energy (a float), and of np.nan
ReturnedFloat(x) == [kind |-> "float", val |-> x]
ReturnedNaN == [kind |-> "nan", val |-> <<>>]
\* a raised exception
Raised(name) == [kind |-> "raise", val |-> name]

\* np.nan as an element of an array of energies
NaN == -1000

\* slice(None, None, None) as an item of an index tuple
SliceAll == -2

\* parameter-index specifications: None, an int, a slice, a tuple of ints and
\* slices; items are the entries of the tuple made of the value
PyNone == [type |-> "NoneType", items |-> <<>>]
PyInt(i) == [type |-> "int", items |-> <<i>>]
PySlice == [type |-> "slice", items |-> <<SliceAll>>]
PyTuple(items) == [type |-> "tuple", items |-> items]
PyList(items) == [type |-> "list", items |-> items]

\* bool(value)
Truthy(x) ==
    CASE x.type = "NoneType" -> FALSE
      [] x.type = "int" -> x.items[1] # 0
      [] x.type = "slice" -> TRUE
      [] OTHER -> Len(x.items) > 0

(***************************************************************************)
(* numpy arrays: a shape and the element at each index tuple               *)
(***************************************************************************)
RECURSIVE SeqMax(_)
SeqMax(s) == IF s = <<>> THEN 0 ELSE IF Head(s) > SeqMax(Tail(s)) THEN Head(s) ELSE SeqMax(Tail(s))

\* the index tuples of an array of the given shape
Points(shape) ==
    {t \in [1..Len(shape) -> 0..(SeqMax(shape) - 1)] : \A i \in 1..Len(shape) : t[i] < shape[i]}

\* the axes an index tuple leaves free: those it indexes by a slice and those
\* it does not reach
FreeAxes(items, n) ==
    SelectSeq([i \in 1..n |-> i], LAMBDA i : i > Len(items) \/ items[i] = SliceAll)

\* the index of the indexed array behind index t of the result
FullIndex(items, n, free, t) ==
    [i \in 1..n |->
        IF i > Len(items) \/ items[i] = SliceAll
        THEN t[Cardinality({j \in 1..Len(free) : free[j] <= i})]
        ELSE items[i]]

\* arr[items] for a tuple of ints and slices (basic indexing): an element, a
\* sub-array over the free axes, or IndexError
NumpyIndex(arr, items) ==
    LET n == Len(arr.shape)
        free == FreeAxes(items, n)
    IN  IF Len(items) > n \/ \E i \in 1..Len(items) : items[i] >= arr.shape[i]
        THEN Raised("IndexError")
        ELSE IF free = <<>> THEN [kind |-> "scalar", val |-> arr.at[items]]
        ELSE ReturnedArray(
                [shape |-> [k \in 1..Len(free) |-> arr.shape[free[k]]],
                 at |-> [t \in Points([k \in 1..Len(free) |-> arr.shape[free[k]]]) |->
                            arr.at[FullIndex(items, n, free, t)]]])

\* a key of _data no array is stored under yet
NoArray == [shape |-> <<0>>, at |-> <<>>]

\* the list of the elements of a one-dimensional array
ArrayToList(a) == [i \in 1..a.shape[1] |-> a.at[<<i - 1>>]]

\* list.index(value): the first position of value, -1 standing for ValueError
ListIndex(list, value) ==
    IF \E i \in 1..Len(list) : list[i] = value
    THEN (CHOOSE i \in 1..Len(list) : list[i] = value /\ \A j \in 1..(i - 1) : list[j] # value) - 1
    ELSE -1

(***************************************************************************)
(* Lookup table builders                                                   *)
(***************************************************************************)
\* a _generate_mappings that appends to the table of the previous run
GenerateMappingsAppending(table, dimension) ==
    dressed_indices \o [index \in 1..Len(table) |-> GenerateSingleMapping(table[index], dimension)]

\* SpectrumLookup._generate_mappings
GenerateMappings(table, dimension) ==
    [index \in 1..Len(table) |-> GenerateSingleMapping(table[index], dimension)]

\* the eigenvectors _data["evecs"][param_indices] of one grid point
EvecsAt(evecs, param_indices) == ArrayToList(NumpyIndex(evecs, param_indices).val)

\* SpectrumLookupMixin.generate_lookup: the dense table of shape
\* counts + (dimension,)
GenerateLookup(evecs, counts, dimension, count, ignore) ==
    LET shape == Append(counts, dimension)
        n == Len(counts)
    IN  [shape |-> shape,
         at |-> [t \in Points(shape) |->
                    MixinGenerateSingleMapping(EvecsAt(evecs, SubSeq(t, 1, n)),
                                               dimension, count, ignore)[t[n + 1] + 1]]]

(***************************************************************************)
(* Query engine                                                            *)
(***************************************************************************)
\* utils.check_sync_status: the decorated method runs only when in sync
CheckSyncStatus(stale, body_result) ==
    IF stale THEN Raised("StaleLookup") ELSE body_result

\* the position of the argument in the label list, -1 when list.index
\* raises ValueError; only a tuple equals a label
LabelPosition(labels, bare_labels) ==
    IF bare_labels.type = "tuple" THEN ListIndex(labels, bare_labels.items) ELSE -1

\* an entry of a table of dressed indices as a returned value
ReturnedEntry(entry) == IF entry = None THEN ReturnedNone ELSE ReturnedInt(entry)

\* the fields of the SpectrumLookup under study
Self ==
    [state_table |-> state_table,
     energy_table |-> energy_table,
     bare_specdata_list |-> bare_specdata_list,
     canonical_bare_labels |-> canonical_bare_labels,
     dressed_indices |-> dressed_indices,
     out_of_sync |-> out_of_sync,
     has_framework |-> TRUE,
     present |-> TRUE]

\* a dressed_index that lets the ValueError of list.index escape
LookupDressedIndexUncaught(inst, bare_labels, param_index) ==
    IF inst.canonical_bare_labels = Unset THEN Raised("AttributeError")
    ELSE LET lookup_position == LabelPosition(inst.canonical_bare_labels, bare_labels)
         IN  IF lookup_position = -1 THEN Raised("ValueError")
             ELSE IF param_index >= Len(inst.dressed_indices) THEN Raised("IndexError")
             ELSE ReturnedEntry(inst.dressed_indices[param_index + 1][lookup_position + 1])

\* SpectrumLookup.dressed_index, the decorated body
LookupDressedIndex(inst, bare_labels, param_index) ==
    IF inst.canonical_bare_labels = Unset THEN Raised("AttributeError")
    ELSE LET lookup_position == LabelPosition(inst.canonical_bare_labels, bare_labels)
         IN  IF lookup_position = -1 THEN ReturnedNone
             ELSE IF param_index >= Len(inst.dressed_indices) THEN Raised("IndexError")
             ELSE ReturnedEntry(inst.dressed_indices[param_index + 1][lookup_position + 1])

\* SpectrumLookup.bare_index, the decorated body
LookupBareIndex(inst, d, param_index) ==
    IF inst.dressed_indices = Unset THEN Raised("AttributeError")
    ELSE IF param_index >= Len(inst.dressed_indices) THEN Raised("IndexError")
    ELSE LET lookup_position == ListIndex(inst.dressed_indices[param_index + 1], d)
         IN  IF lookup_position = -1 THEN ReturnedNone
             ELSE ReturnedLabel(inst.canonical_bare_labels[lookup_position + 1])

\* SpectrumLookupMixin.set_npindextuple
SetNpIndexTuple(param_indices) ==
    LET chosen == IF Truthy(param_indices) THEN param_indices ELSE current_param_indices
    IN  chosen.items

\* SpectrumLookupMixin.all_params_fixed
AllParamsFixed(param_index_tuple) == Len(parameters_counts) = Len(param_index_tuple)

\* SpectrumLookupMixin.dressed_index, the decorated body
MixinDressedIndex(bare_labels, param_indices) ==
    LET index_tuple == SetNpIndexTuple(param_indices)
        lookup_position == LabelPosition(BareProductStatesLabels(subsystem_dims), bare_labels)
    IN  IF lookup_position = -1 THEN ReturnedNone
        ELSE IF data_dressed_indices = NoArray THEN Raised("KeyError")
        ELSE LET got == NumpyIndex(data_dressed_indices, Append(index_tuple, lookup_position))
             IN  IF got.kind = "scalar" THEN ReturnedEntry(got.val) ELSE got

\* np.where(array == d)[0][0]: the least first-axis index of an element
\* equal to d, -1 standing for the IndexError of an empty match
FirstMatch(a, d) ==
    LET hits == {t \in DOMAIN a.at : a.at[t] = d}
    IN  IF hits = {} THEN -1
        ELSE CHOOSE i \in {t[1] : t \in hits} : \A t \in hits : i <= t[1]

\* a bare_index of the mixin that returns None when no position matches
MixinBareIndexSilent(d, param_indices) ==
    LET param_index_tuple == SetNpIndexTuple(param_indices)
        labels == BareProductStatesLabels(subsystem_dims)
    IN  IF ~AllParamsFixed(param_index_tuple) THEN Raised("ValueError: all parameters must be fixed")
        ELSE IF data_dressed_indices = NoArray THEN Raised("KeyError")
        ELSE LET got == NumpyIndex(data_dressed_indices, param_index_tuple)
                 lookup_position == IF got.kind = "array" THEN FirstMatch(got.val, d) ELSE -1
             IN  IF lookup_position = -1 THEN ReturnedNone
                 ELSE IF lookup_position >= Len(labels) THEN Raised("IndexError")
                 ELSE ReturnedLabel(labels[lookup_position + 1])

\* a bare_index of the mixin that takes the dressed index for the position
\* of the label, as if the table were the identity
MixinBareIndexByPosition(d, param_indices) ==
    LET param_index_tuple == SetNpIndexTuple(param_indices)
        labels == BareProductStatesLabels(subsystem_dims)
    IN  IF ~AllParamsFixed(param_index_tuple) THEN Raised("ValueError: all parameters must be fixed")
        ELSE IF data_dressed_indices = NoArray THEN Raised("KeyError")
        ELSE LET got == NumpyIndex(data_dressed_indices, param_index_tuple)
                 lookup_position == IF got.kind = "array" THEN FirstMatch(got.val, d) ELSE -1
             IN  IF lookup_position = -1 THEN Raised("ValueError: could not identify a bare index")
                 ELSE IF d >= Len(labels) THEN Raised("IndexError")
                 ELSE ReturnedLabel(labels[d + 1])

\* SpectrumLookupMixin.bare_index, the decorated body
MixinBareIndex(d, param_indices) ==
    LET param_index_tuple == SetNpIndexTuple(param_indices)
        labels == BareProductStatesLabels(subsystem_dims)
    IN  IF ~AllParamsFixed(param_index_tuple) THEN Raised("ValueError: all parameters must be fixed")
        ELSE IF data_dressed_indices = NoArray THEN Raised("KeyError")
        ELSE LET got == NumpyIndex(data_dressed_indices, param_index_tuple)
                 lookup_position == IF got.kind = "array" THEN FirstMatch(got.val, d) ELSE -1
             IN  IF lookup_position = -1 THEN Raised("ValueError: could not identify a bare index")
                 ELSE IF lookup_position >= Len(labels) THEN Raised("IndexError")
                 ELSE ReturnedLabel(labels[lookup_position + 1])

\* an element or a sub-array of a table of energies as a returned value
ReturnedEnergies(got) == IF got.kind = "scalar" THEN ReturnedFloat(got.val) ELSE got

\* an element or a sub-array of a table of eigendata as a returned value
ReturnedEigendata(got) == IF got.kind = "scalar" THEN ReturnedData(got.val) ELSE got

\* SpectrumLookup.dressed_eigenstates, the decorated body
LookupDressedEigenstates(inst, param_index) ==
    IF param_index >= Len(inst.state_table) THEN Raised("IndexError")
    ELSE ReturnedData(inst.state_table[param_index + 1])

\* SpectrumLookup.dressed_eigenenergies, the decorated body
LookupDressedEigenenergies(inst, param_index) ==
    IF param_index >= Len(inst.energy_table) THEN Raised("IndexError")
    ELSE ReturnedData(inst.energy_table[param_index + 1])

\* SpectrumLookup.energy_dressed_index, the decorated body
LookupEnergyDressedIndex(inst, d, param_index) ==
    IF param_index >= Len(inst.energy_table) THEN Raised("IndexError")
    ELSE IF d >= Len(inst.energy_table[param_index + 1]) THEN Raised("IndexError")
    ELSE ReturnedFloat(inst.energy_table[param_index + 1][d + 1])

\* SpectrumLookup.energy_bare_index, the decorated body; its call of
\* dressed_index passes the synchronization check again
LookupEnergyBareIndex(inst, bare_tuple, param_index) ==
    LET found == CheckSyncStatus(inst.out_of_sync,
                                 LookupDressedIndex(inst, bare_tuple, param_index))
    IN  IF found.kind = "int"
        THEN LookupEnergyDressedIndex(inst, found.val, param_index)
        ELSE found

\* SpectrumLookup.bare_eigenstates, the decorated body, for the subsystem at
\* position subsys_index of the framework
LookupBareEigenstates(inst, subsys_index, param_index) ==
    IF ~inst.has_framework THEN Raised("AttributeError")
    ELSE IF param_index >= Len(inst.bare_specdata_list[subsys_index + 1].state_table)
    THEN Raised("IndexError")
    ELSE ReturnedData(inst.bare_specdata_list[subsys_index + 1].state_table[param_index + 1])

\* SpectrumLookup.bare_eigenenergies, the decorated body
LookupBareEigenenergies(inst, subsys_index, param_index) ==
    IF ~inst.has_framework THEN Raised("AttributeError")
    ELSE IF param_index >= Len(inst.bare_specdata_list[subsys_index + 1].energy_table)
    THEN Raised("IndexError")
    ELSE ReturnedData(inst.bare_specdata_list[subsys_index + 1].energy_table[param_index + 1])

\* qt.basis(dim, state_index): the ket with a one at state_index
Basis(dim, state_index) == [i \in 1..dim |-> IF i = state_index + 1 THEN 1 ELSE 0]

\* a product of two kets in which the index of the first ket varies fastest
KronFirstFastest(u, v) ==
    [k \in 1..(Len(u) * Len(v)) |->
        u[((k - 1) % Len(u)) + 1] * v[((k - 1) \div Len(u)) + 1]]

\* the Kronecker product of two kets
Kron(u, v) ==
    [k \in 1..(Len(u) * Len(v)) |->
        u[((k - 1) \div Len(v)) + 1] * v[((k - 1) % Len(v)) + 1]]

RECURSIVE TensorFrom(_, _)
TensorFrom(ket, kets) ==
    IF kets = <<>> THEN ket ELSE TensorFrom(Kron(ket, Head(kets)), Tail(kets))

\* qt.tensor(*kets) of at least one ket
Tensor(kets) == TensorFrom(Head(kets), Tail(kets))

\* bare_productstate (the same code in both classes): the product of the
\* basis kets of the components of bare_index, in the dimensions subsys_dims
BareProductstate(subsys_dims, bare_index) ==
    IF bare_index.type \notin {"tuple", "list"} THEN Raised("TypeError")
    ELSE LET items == bare_index.items
             bad == {i \in 1..Len(items) : i > Len(subsys_dims) \/ items[i] >= subsys_dims[i]}
             first_bad == CHOOSE i \in bad : \A j \in bad : i <= j
         IN  IF bad # {}
             THEN IF first_bad > Len(subsys_dims) THEN Raised("IndexError")
                  ELSE Raised("ValueError")
             ELSE IF items = <<>> THEN Raised("TypeError")
             ELSE ReturnedData(
                     [dims |-> [i \in 1..Len(items) |-> subsys_dims[i]],
                      ket |-> Tensor([i \in 1..Len(items) |-> Basis(subsys_dims[i], items[i])])])

\* SpectrumLookupMixin.eigensys, the decorated body
MixinEigensys(param_indices) ==
    ReturnedEigendata(NumpyIndex(data_evecs, SetNpIndexTuple(param_indices)))

\* SpectrumLookupMixin.eigenvals, the decorated body
MixinEigenvals(param_indices) ==
    ReturnedEnergies(NumpyIndex(data_evals, SetNpIndexTuple(param_indices)))

\* SpectrumLookupMixin.bare_eigenstates, the value of the decorated body
MixinBareEigenstates(subsys_index, param_indices) ==
    ReturnedEigendata(NumpyIndex(data_bare_evecs[subsys_index + 1],
                                 SetNpIndexTuple(param_indices)))

\* SpectrumLookupMixin.bare_eigenvals, the value of the decorated body
MixinBareEigenvals(subsys_index, param_indices) ==
    ReturnedEnergies(NumpyIndex(data_bare_evals[subsys_index + 1],
                                SetNpIndexTuple(param_indices)))

\* energies -= ground for an element or for a view of the table evals:
\* the returned energies and the table afterwards
SubtractGround(evals, target_items, ground_items) ==
    LET n == Len(evals.shape)
        free == FreeAxes(target_items, n)
        energies == NumpyIndex(evals, target_items)
        ground == NumpyIndex(evals, ground_items)
    IN  IF ground.kind = "raise" THEN [value |-> ground, evals |-> evals]
        ELSE IF energies.kind = "scalar"
        THEN [value |-> ReturnedFloat(energies.val - ground.val), evals |-> evals]
        ELSE LET reduced ==
                    [shape |-> energies.val.shape,
                     at |-> [t \in DOMAIN energies.val.at |->
                                energies.val.at[t] - ground.val.at[t]]]
                 written == {FullIndex(target_items, n, free, t) : t \in DOMAIN reduced.at}
                 source(u) == CHOOSE t \in DOMAIN reduced.at :
                                  FullIndex(target_items, n, free, t) = u
             IN  [value |-> ReturnedArray(reduced),
                  evals |-> [shape |-> evals.shape,
                             at |-> [u \in DOMAIN evals.at |->
                                        IF u \in written THEN reduced.at[source(u)]
                                        ELSE evals.at[u]]]]

\* SpectrumLookupMixin.energy_by_dressed_index, the decorated body after the
\* reset of the current indices: the returned energies and the table evals
\* afterwards
MixinEnergyByDressedIndex(d, subtract_ground, param_indices) ==
    LET param_indices_tuple == SetNpIndexTuple(param_indices)
        energies == NumpyIndex(data_evals, Append(param_indices_tuple, d))
    IN  IF energies.kind = "raise" THEN [value |-> energies, evals |-> data_evals]
        ELSE IF subtract_ground
        THEN SubtractGround(data_evals, Append(param_indices_tuple, d),
                            Append(param_indices_tuple, 0))
        ELSE [value |-> ReturnedEnergies(energies), evals |-> data_evals]

\* whether the table of dressed indices holds a None, which makes its
\* elements Python ints (dtype object) instead of numpy integers
TableHoldsNone == \E t \in DOMAIN data_dressed_indices.at : data_dressed_indices.at[t] = None

\* sliced_energies[multi_index][location], -1 standing for an IndexError
SlicedEnergy(sliced, multi_index, location) ==
    IF sliced.kind # "array" THEN -1
    ELSE LET row == NumpyIndex(sliced.val, multi_index)
         IN  IF row.kind # "array" THEN -1
             ELSE LET e == NumpyIndex(row.val, <<location>>)
                  IN  IF e.kind = "scalar" THEN e.val ELSE -1

\* the conversion of a float to an element of an integer array: the
\* fractional part is dropped (energies are in tenths)
TruncateToInt(x) == IF x >= 0 THEN (x \div 10) * 10 ELSE 0 - (((0 - x) \div 10) * 10)

\* energies[...] = x for the array made by np.empty_like(dressed_index): it
\* has the dtype of the table of dressed indices, which is object when the
\* table holds a None and a numpy integer type otherwise
StoredInEnergies(x) == IF TableHoldsNone THEN x ELSE TruncateToInt(x)

\* the loop of energy_by_bare_index over the array of dressed indices
EnergiesOfArray(found, sliced, subtract_ground) ==
    LET failing == {t \in DOMAIN found.at :
                       found.at[t] # None /\ SlicedEnergy(sliced, t, found.at[t]) = -1}
    IN  IF failing # {} THEN Raised("IndexError")
        ELSE ReturnedArray(
                [shape |-> found.shape,
                 at |-> [t \in DOMAIN found.at |->
                            IF found.at[t] = None THEN NaN
                            ELSE IF subtract_ground
                            THEN StoredInEnergies(
                                     StoredInEnergies(SlicedEnergy(sliced, t, found.at[t]))
                                        - SlicedEnergy(sliced, t, 0))
                            ELSE StoredInEnergies(SlicedEnergy(sliced, t, found.at[t]))]])

\* SpectrumLookupMixin.energy_by_bare_index, the decorated body; its call of
\* dressed_index passes the synchronization check again
MixinEnergyByBareIndex(bare_tuple, subtract_ground, param_indices) ==
    LET index_tuple == SetNpIndexTuple(param_indices)
        found == CheckSyncStatus(out_of_sync,
                                 MixinDressedIndex(bare_tuple, PyTuple(index_tuple)))
        sliced == NumpyIndex(data_evals, index_tuple)
    IN  CASE found.kind = "None" -> ReturnedNaN
          [] found.kind = "raise" -> found
          [] found.kind = "int" /\ TableHoldsNone ->
                LET energy == NumpyIndex(data_evals, Append(index_tuple, found.val))
                    ground == NumpyIndex(data_evals, Append(index_tuple, 0))
                IN  IF energy.kind # "scalar" THEN Raised("IndexError")
                    ELSE IF subtract_ground THEN ReturnedFloat(energy.val - ground.val)
                    ELSE ReturnedFloat(energy.val)
          [] found.kind = "int" /\ ~TableHoldsNone ->
                EnergiesOfArray([shape |-> <<>>, at |-> [t \in {<<>>} |-> found.val]],
                                sliced, subtract_ground)
          [] OTHER -> EnergiesOfArray(found.val, sliced, subtract_ground)

(***************************************************************************)
(* Serialization of a SpectrumLookup                                       *)
(***************************************************************************)
NoInstance ==
    [state_table |-> Unset, energy_table |-> Unset, bare_specdata_list |-> Unset,
     canonical_bare_labels |-> Unset, dressed_indices |-> Unset,
     out_of_sync |-> FALSE, has_framework |-> FALSE, present |-> FALSE]

NoIOData ==
    [dressed_specdata |-> Unset, bare_specdata_list |-> Unset,
     canonical_bare_labels |-> Unset, dressed_indices |-> Unset, present |-> FALSE]

\* Serializable.serialize: the attributes named by _init_params
SerializedFields(inst) ==
    [dressed_specdata |-> [state_table |-> inst.state_table,
                           energy_table |-> inst.energy_table],
     bare_specdata_list |-> inst.bare_specdata_list,
     canonical_bare_labels |-> inst.canonical_bare_labels,
     dressed_indices |-> inst.dressed_indices,
     present |-> TRUE]

\* a deserialize that leaves the table of dressed indices unset
DeserializedWithoutTable(io) ==
    [state_table |-> io.dressed_specdata.state_table,
     energy_table |-> io.dressed_specdata.energy_table,
     bare_specdata_list |-> io.bare_specdata_list,
     canonical_bare_labels |-> io.canonical_bare_labels,
     dressed_indices |-> Unset,
     out_of_sync |-> FALSE, has_framework |-> FALSE, present |-> TRUE]

\* SpectrumLookup.deserialize: __init__ with framework None and auto_run
\* False, then the two fields that run would have set
Deserialized(io) ==
    [state_table |-> io.dressed_specdata.state_table,
     energy_table |-> io.dressed_specdata.energy_table,
     bare_specdata_list |-> io.bare_specdata_list,
     canonical_bare_labels |-> io.canonical_bare_labels,
     dressed_indices |-> io.dressed_indices,
     out_of_sync |-> FALSE, has_framework |-> FALSE, present |-> TRUE]

(***************************************************************************)
(* The record of a call                                                    *)
(***************************************************************************)
\* the arguments of a call; an argument the operation does not take is None
Args(bare_labels, d, subtract_ground, subsys_index, param_indices, target) ==
    [bare_labels |-> bare_labels, d |-> d, subtract_ground |-> subtract_ground,
     subsys_index |-> subsys_index, param_indices |-> param_indices, target |-> target]

NoArgs == Args(PyNone, None, FALSE, None, PyNone, "self")

Called(op, args, outcome) ==
    /\ last_op' = op
    /\ last_args' = args
    /\ result' = outcome

\* the state of an object no SpectrumLookup field of which is set
\* no Dcpl is under study
NoDcpl ==
    /\ p0 = None
    /\ q0 = None
    /\ N0 = None

NoLookup ==
    /\ state_table = Unset
    /\ energy_table = Unset
    /\ bare_specdata_list = Unset
    /\ canonical_bare_labels = Unset
    /\ dressed_indices = Unset
    /\ io_data = NoIOData
    /\ restored = NoInstance

\* the state of an object that does not host the mixin
NoSweep ==
    /\ parameters_counts = <<>>
    /\ data_evecs = NoArray
    /\ data_evals = NoArray
    /\ data_bare_evecs = Unset
    /\ data_bare_evals = Unset
    /\ data_dressed_indices = NoArray
    /\ current_param_indices = PySlice

\* no mapper running, no call made
Idle ==
    /\ lookup_indices = <<>>
    /\ lookup_rows = Unset
    /\ mapper_calls = Unset
    /\ mappers = Unset
    /\ overlap_matrix = Unset
    /\ mapping = Unset
    /\ dressed_index = 0
    /\ pc = "ready"
    /\ last_op = "init"
    /\ last_args = NoArgs
    /\ result = NoResult

(***************************************************************************)
(* Specification SpecLabels: the two bare label enumerators applied to     *)
(* every tuple of subsystem dimensions within the bounds                   *)
(***************************************************************************)
DimTuples == UNION {[1..k -> 1..MaxSubsysDim] : k \in 0..MaxSubsys}

InitLabels ==
    /\ host = {"SpectrumLookup", "SpectrumLookupMixin"}
    /\ NoDcpl
    /\ subsystem_dims \in DimTuples
    /\ out_of_sync = FALSE
    /\ NoLookup
    /\ NoSweep
    /\ evals_count = 0
    /\ ignore_hybridization = FALSE
    /\ Idle

\* self._canonical_bare_labels = self._generate_bare_labels()
CallGenerateBareLabels ==
    /\ canonical_bare_labels' = GenerateBareLabels(subsystem_dims)
    /\ last_op' = "_generate_bare_labels"
    /\ UNCHANGED <<dcpl_vars, host, subsystem_dims, out_of_sync, state_table, energy_table,
                   bare_specdata_list, dressed_indices, io_vars, sweep_vars,
                   mapper_vars, last_args, result>>

\* a read of the property self._bare_product_states_labels
ReadBareProductStatesLabels ==
    /\ Called("_bare_product_states_labels", NoArgs,
              ReturnedList(BareProductStatesLabels(subsystem_dims)))
    /\ UNCHANGED <<dcpl_vars, host, subsystem_dims, out_of_sync, lookup_vars, io_vars,
                   sweep_vars, mapper_vars>>

NextLabels == CallGenerateBareLabels \/ ReadBareProductStatesLabels

SpecLabels == InitLabels /\ [][NextLabels]_vars

(***************************************************************************)
(* Specification SpecMapper: both mappers applied to one parameter point   *)
(* whose eigenvectors are drawn freely; the mapper of the mixin runs one   *)
(* loop iteration per step                                                 *)
(***************************************************************************)
Min(a, b) == IF a < b THEN a ELSE b

\* the eigenvector lists of count kets of the given dimension
EvecsChoices(count, dimension) == [1..count -> [1..dimension -> Amps]]

\* the array _data["evecs"] of a sweep whose grid point t has the
\* eigenvectors evecs_of[t]
EvecsArray(counts, count, evecs_of) ==
    [shape |-> Append(counts, count),
     at |-> [t \in Points(Append(counts, count)) |->
                evecs_of[SubSeq(t, 1, Len(counts))][t[Len(counts) + 1] + 1]]]

InitMapper ==
    /\ host = {"SpectrumLookup", "SpectrumLookupMixin"}
    /\ NoDcpl
    /\ subsystem_dims \in {<<n>> : n \in 1..MaxDim}
    /\ out_of_sync = FALSE
    /\ evals_count \in 1..Min(MaxEvals, Dimension(subsystem_dims))
    /\ \E evecs \in EvecsChoices(evals_count, Dimension(subsystem_dims)) :
          /\ state_table = <<evecs>>
          /\ data_evecs = EvecsArray(<<1>>, evals_count, [t \in {<<0>>} |-> evecs])
    /\ energy_table = Unset
    /\ bare_specdata_list = Unset
    /\ canonical_bare_labels = Unset
    /\ dressed_indices = Unset
    /\ io_data = NoIOData
    /\ restored = NoInstance
    /\ parameters_counts = <<1>>
    /\ data_evals = NoArray
    /\ data_bare_evecs = Unset
    /\ data_bare_evals = Unset
    /\ data_dressed_indices = NoArray
    /\ current_param_indices = PySlice
    /\ ignore_hybridization \in BOOLEAN
    /\ Idle

\* a run whose mapper zeroes the eigenvectors it has read
RunZeroing ==
    /\ "SpectrumLookup" \in host
    /\ pc = "ready"
    /\ canonical_bare_labels' = GenerateBareLabels(subsystem_dims)
    /\ dressed_indices' = GenerateMappings(state_table, Dimension(subsystem_dims))
    /\ state_table' = [index \in DOMAIN state_table |->
                          [d \in DOMAIN state_table[index] |->
                              [b \in DOMAIN state_table[index][d] |-> 0]]]
    /\ last_op' = "run"
    /\ UNCHANGED <<dcpl_vars, host, subsystem_dims, out_of_sync, energy_table,
                   bare_specdata_list, io_vars, sweep_vars, mapper_vars,
                   last_args, result>>

\* SpectrumLookup.run
Run ==
    /\ "SpectrumLookup" \in host
    /\ pc = "ready"
    /\ canonical_bare_labels' = GenerateBareLabels(subsystem_dims)
    /\ dressed_indices' = GenerateMappings(state_table, Dimension(subsystem_dims))
    /\ last_op' = "run"
    /\ UNCHANGED <<dcpl_vars, host, subsystem_dims, out_of_sync, state_table, energy_table,
                   bare_specdata_list, io_vars, sweep_vars, mapper_vars,
                   last_args, result>>

\* SpectrumLookupMixin._generate_single_mapping((0,)), up to the loop
MixinMappingBegin ==
    /\ "SpectrumLookupMixin" \in host
    /\ pc = "ready"
    /\ dressed_indices # Unset
    /\ overlap_matrix' = ConvertEvecsToNdarray(EvecsAt(data_evecs, <<0>>))
    /\ mapping' = [pos \in 1..Dimension(subsystem_dims) |-> None]
    /\ dressed_index' = 0
    /\ pc' = "loop"
    /\ last_op' = "_generate_single_mapping"
    /\ UNCHANGED <<dcpl_vars, host, subsystem_dims, out_of_sync, lookup_vars, io_vars,
                   sweep_vars, lookup_indices, lookup_rows, mapper_calls,
                   last_args, result, mappers>>

\* one iteration of its loop
MixinMappingIterate ==
    /\ pc = "loop"
    /\ dressed_index < evals_count
    /\ LET st == MixinMappingStep(overlap_matrix, mapping, dressed_index,
                                  ignore_hybridization)
       IN  /\ overlap_matrix' = st.overlap_matrix
           /\ mapping' = st.dressed_indices
    /\ dressed_index' = dressed_index + 1
    /\ UNCHANGED <<dcpl_vars, host, subsystem_dims, out_of_sync, lookup_vars, io_vars,
                   sweep_vars, lookup_indices, lookup_rows, mapper_calls, pc,
                   call_vars, mappers>>

\* return np.asarray(dressed_indices)
MixinMappingReturn ==
    /\ pc = "loop"
    /\ dressed_index >= evals_count
    /\ result' = ReturnedList(mapping)
    /\ pc' = "done"
    /\ UNCHANGED <<dcpl_vars, host, subsystem_dims, out_of_sync, lookup_vars, io_vars,
                   sweep_vars, lookup_indices, lookup_rows, mapper_calls,
                   overlap_matrix, mapping, dressed_index, last_op, last_args, mappers>>

NextMapper == Run \/ MixinMappingBegin \/ MixinMappingIterate \/ MixinMappingReturn

SpecMapper == InitMapper /\ [][NextMapper]_vars

(***************************************************************************)
(* Eigensystems of the lookup specifications: composite spaces of          *)
(* dimension two with both eigenvectors kept                               *)
(***************************************************************************)
MaxParamCount == 2
MaxLabelEntry == 1
MaxDressedArg == 2

LookupDims == {<<2>>, <<1, 2>>}
GridShapes == {<<2>>, <<1, 2>>}

\* eigenvector pairs: aligned with the bare basis, swapped, both nearest to
\* bare position 0, and one hybridized evenly
EvecsMenu ==
    { << <<-8, 6>>, <<6, -8>> >>, << <<6, -8>>, <<-8, 6>> >>,
      << <<-8, 6>>, <<-8, 6>> >>, << <<6, 6>>, <<6, -8>> >> }

RECURSIVE SeqSum(_)
SeqSum(s) == IF s = <<>> THEN 0 ELSE Head(s) + SeqSum(Tail(s))

\* the eigenenergy of dressed state d at a grid point, and of bare state k of
\* subsystem s
EnergyOf(point, d) == 1 + 10 * d + SeqSum(point)
BareEnergyOf(s, point, k) == 100 * s + k

\* SpectrumData tables of a SpectrumLookup over param_count parameter values
EnergyTable(param_count, count) ==
    [p \in 1..param_count |-> [d \in 1..count |-> EnergyOf(<<p - 1>>, d - 1)]]

BareSpecdataList(dims, param_count) ==
    [s \in 1..Len(dims) |->
        [state_table |-> [p \in 1..param_count |->
                             [k \in 1..dims[s] |-> Basis(dims[s], k - 1)]],
         energy_table |-> [p \in 1..param_count |->
                              [k \in 1..dims[s] |-> BareEnergyOf(s, <<p - 1>>, k - 1)]]]]

\* the arrays _data["evals"], _data["bare_evals"] and _data["bare_evecs"]
EvalsArray(counts, count) ==
    [shape |-> Append(counts, count),
     at |-> [t \in Points(Append(counts, count)) |->
                EnergyOf(SubSeq(t, 1, Len(counts)), t[Len(counts) + 1])]]

BareEvalsArrays(dims, counts) ==
    [s \in 1..Len(dims) |->
        [shape |-> Append(counts, dims[s]),
         at |-> [t \in Points(Append(counts, dims[s])) |->
                    BareEnergyOf(s, SubSeq(t, 1, Len(counts)), t[Len(counts) + 1])]]]

BareEvecsArrays(dims, counts) ==
    [s \in 1..Len(dims) |->
        [shape |-> Append(counts, dims[s]),
         at |-> [t \in Points(Append(counts, dims[s])) |->
                    Basis(dims[s], t[Len(counts) + 1])]]]

\* a SpectrumLookup constructed with auto_run False
InitSpectrumLookup(dims, tables) ==
    /\ host = {"SpectrumLookup"}
    /\ NoDcpl
    /\ subsystem_dims \in dims
    /\ out_of_sync = FALSE
    /\ state_table \in tables
    /\ energy_table = EnergyTable(Len(state_table), 2)
    /\ bare_specdata_list = BareSpecdataList(subsystem_dims, Len(state_table))
    /\ canonical_bare_labels = Unset
    /\ dressed_indices = Unset
    /\ io_data = NoIOData
    /\ restored = NoInstance
    /\ NoSweep
    /\ evals_count = 2
    /\ ignore_hybridization = FALSE
    /\ Idle

\* a host of the mixin whose eigensystems are computed and whose lookup is
\* not generated yet
InitMixinHost(dims, shapes, menu, flags) ==
    /\ host = {"SpectrumLookupMixin"}
    /\ NoDcpl
    /\ subsystem_dims \in dims
    /\ out_of_sync = FALSE
    /\ NoLookup
    /\ parameters_counts \in shapes
    /\ evals_count = 2
    /\ \E evecs_of \in [Points(parameters_counts) -> menu] :
          data_evecs = EvecsArray(parameters_counts, evals_count, evecs_of)
    /\ data_evals = EvalsArray(parameters_counts, evals_count)
    /\ data_bare_evecs = BareEvecsArrays(subsystem_dims, parameters_counts)
    /\ data_bare_evals = BareEvalsArrays(subsystem_dims, parameters_counts)
    /\ data_dressed_indices = NoArray
    /\ current_param_indices = PySlice
    /\ ignore_hybridization \in flags
    /\ Idle

\* the eigenvector tables of SpectrumLookup objects within the bounds
StateTables(menu) == UNION {[1..n -> menu] : n \in 1..MaxParamCount}

(***************************************************************************)
(* Builds, changes of the eigensystem, serialization                       *)
(***************************************************************************)
\* SpectrumLookupMixin.generate_lookup; the host stores the returned array
\* as _data["dressed_indices"]
CallGenerateLookup ==
    /\ "SpectrumLookupMixin" \in host
    /\ pc = "ready"
    /\ LET lookup == GenerateLookup(data_evecs, parameters_counts,
                                    Dimension(subsystem_dims), evals_count,
                                    ignore_hybridization)
       IN  /\ data_dressed_indices' = lookup
           /\ Called("generate_lookup", NoArgs, ReturnedArray(lookup))
    /\ UNCHANGED <<dcpl_vars, host, subsystem_dims, out_of_sync, lookup_vars, io_vars,
                   parameters_counts, data_evecs, data_evals, data_bare_evecs,
                   data_bare_evals, evals_count, ignore_hybridization,
                   current_param_indices, mapper_vars>>

\* generate_lookup up to its loop: the empty array of mappings and the
\* iterator over itertools.product(*map(range, counts))
GenerateLookupBegin ==
    /\ "SpectrumLookupMixin" \in host
    /\ pc = "ready"
    /\ lookup_rows' = [index \in Points(parameters_counts) |-> Unset]
    /\ lookup_indices' = ItertoolsProduct([i \in 1..Len(parameters_counts) |->
                                              Range(parameters_counts[i])])
    /\ mapper_calls' = [index \in Points(parameters_counts) |-> 0]
    /\ pc' = "lookup"
    /\ Called("generate_lookup", NoArgs, NoResult)
    /\ UNCHANGED <<dcpl_vars, host, subsystem_dims, out_of_sync, lookup_vars, io_vars,
                   sweep_vars, overlap_matrix, mapping, dressed_index, mappers>>

\* an iteration that takes two indices from the iterator and maps the second
GenerateLookupPointSkipping ==
    /\ pc = "lookup"
    /\ lookup_indices # <<>>
    /\ LET index == lookup_indices[Len(lookup_indices) - Len(Tail(Tail(lookup_indices)))]
       IN  /\ lookup_rows' =
                 [lookup_rows EXCEPT ![index] =
                     MixinGenerateSingleMapping(EvecsAt(data_evecs, index),
                                                Dimension(subsystem_dims), evals_count,
                                                ignore_hybridization)]
           /\ mapper_calls' = [mapper_calls EXCEPT ![index] = @ + 1]
    /\ lookup_indices' = Tail(Tail(lookup_indices))
    /\ UNCHANGED <<dcpl_vars, host, subsystem_dims, out_of_sync, lookup_vars, io_vars,
                   sweep_vars, overlap_matrix, mapping, dressed_index, pc, call_vars, mappers>>

\* one iteration of its loop:
\* dressed_indices[index] = self._generate_single_mapping(index)
GenerateLookupPoint ==
    /\ pc = "lookup"
    /\ lookup_indices # <<>>
    /\ LET index == Head(lookup_indices)
       IN  /\ lookup_rows' =
                 [lookup_rows EXCEPT ![index] =
                     MixinGenerateSingleMapping(EvecsAt(data_evecs, index),
                                                Dimension(subsystem_dims), evals_count,
                                                ignore_hybridization)]
           /\ mapper_calls' = [mapper_calls EXCEPT ![index] = @ + 1]
    /\ lookup_indices' = Tail(lookup_indices)
    /\ UNCHANGED <<dcpl_vars, host, subsystem_dims, out_of_sync, lookup_vars, io_vars,
                   sweep_vars, overlap_matrix, mapping, dressed_index, pc, call_vars, mappers>>

\* np.asarray(dressed_indices[:].tolist()): the array of mappings as a dense
\* array with the bare positions as its last axis
DenseLookup(rows, counts, dimension) ==
    LET shape == Append(counts, dimension)
        n == Len(counts)
    IN  [shape |-> shape,
         at |-> [t \in Points(shape) |-> rows[SubSeq(t, 1, n)][t[n + 1] + 1]]]

\* the iterator is exhausted: generate_lookup returns the dense array, which
\* the host stores as _data["dressed_indices"]
GenerateLookupReturn ==
    /\ pc = "lookup"
    /\ lookup_indices = <<>>
    /\ LET lookup == DenseLookup(lookup_rows, parameters_counts, Dimension(subsystem_dims))
       IN  /\ data_dressed_indices' = lookup
           /\ result' = ReturnedArray(lookup)
    /\ pc' = "ready"
    /\ UNCHANGED <<dcpl_vars, host, subsystem_dims, out_of_sync, lookup_vars, io_vars,
                   parameters_counts, data_evecs, data_evals, data_bare_evecs,
                   data_bare_evals, evals_count, ignore_hybridization,
                   current_param_indices, lookup_indices, lookup_rows, mapper_calls,
                   overlap_matrix, mapping, dressed_index, last_op, last_args, mappers>>

\* the framework marks the lookup as out of sync
MarkOutOfSync ==
    /\ ~out_of_sync
    /\ out_of_sync' = TRUE
    /\ Called("out_of_sync", NoArgs, NoResult)
    /\ UNCHANGED <<dcpl_vars, host, subsystem_dims, lookup_vars, io_vars, sweep_vars,
                   mapper_vars>>

\* the eigenvectors of one parameter value are recomputed, which leaves the
\* lookup out of sync
SpectrumChanged(point, evecs) ==
    /\ IF "SpectrumLookup" \in host
       THEN /\ point \in {<<p - 1>> : p \in 1..Len(state_table)}
            /\ state_table' = [state_table EXCEPT ![point[1] + 1] = evecs]
            /\ UNCHANGED data_evecs
       ELSE /\ point \in Points(parameters_counts)
            /\ data_evecs' =
                  [data_evecs EXCEPT !.at =
                      [t \in DOMAIN data_evecs.at |->
                          IF SubSeq(t, 1, Len(point)) = point
                          THEN evecs[t[Len(point) + 1] + 1]
                          ELSE data_evecs.at[t]]]
            /\ UNCHANGED state_table
    /\ out_of_sync' = TRUE
    /\ Called("spectrum_changed", NoArgs, NoResult)
    /\ UNCHANGED <<dcpl_vars, host, subsystem_dims, energy_table, bare_specdata_list,
                   canonical_bare_labels, dressed_indices, io_vars,
                   parameters_counts, data_evals, data_bare_evecs, data_bare_evals,
                   data_dressed_indices, evals_count, ignore_hybridization,
                   current_param_indices, mapper_vars>>

\* Serializable.serialize of the SpectrumLookup
Serialize ==
    /\ "SpectrumLookup" \in host
    /\ IF dressed_indices = Unset
       THEN /\ Called("serialize", NoArgs, Raised("AttributeError"))
            /\ UNCHANGED io_data
       ELSE /\ io_data' = SerializedFields(Self)
            /\ Called("serialize", NoArgs, ReturnedNone)
    /\ UNCHANGED <<dcpl_vars, host, subsystem_dims, out_of_sync, lookup_vars, restored,
                   sweep_vars, mapper_vars>>

\* SpectrumLookup.deserialize
Deserialize ==
    /\ "SpectrumLookup" \in host
    /\ io_data.present
    /\ restored' = Deserialized(io_data)
    /\ Called("deserialize", NoArgs, ReturnedNone)
    /\ UNCHANGED <<dcpl_vars, host, subsystem_dims, out_of_sync, lookup_vars, io_data,
                   sweep_vars, mapper_vars>>

(***************************************************************************)
(* Queries of a SpectrumLookup: of the object under study (self) or of the *)
(* deserialized one (restored)                                             *)
(***************************************************************************)
Instance(target) == IF target = "self" THEN Self ELSE restored

\* a query that changes no state
Query(op, args, outcome) ==
    /\ Called(op, args, outcome)
    /\ UNCHANGED <<dcpl_vars, host, subsystem_dims, out_of_sync, lookup_vars, io_vars,
                   sweep_vars, mapper_vars>>

CallDressedIndex(target, bare_labels, param_index) ==
    /\ "SpectrumLookup" \in host
    /\ Instance(target).present
    /\ Query("dressed_index",
             Args(bare_labels, None, FALSE, None, PyInt(param_index), target),
             CheckSyncStatus(Instance(target).out_of_sync,
                             LookupDressedIndex(Instance(target), bare_labels, param_index)))

CallBareIndex(target, d, param_index) ==
    /\ "SpectrumLookup" \in host
    /\ Instance(target).present
    /\ Query("bare_index",
             Args(PyNone, d, FALSE, None, PyInt(param_index), target),
             CheckSyncStatus(Instance(target).out_of_sync,
                             LookupBareIndex(Instance(target), d, param_index)))

CallDressedEigenstates(target, param_index) ==
    /\ "SpectrumLookup" \in host
    /\ Instance(target).present
    /\ Query("dressed_eigenstates",
             Args(PyNone, None, FALSE, None, PyInt(param_index), target),
             CheckSyncStatus(Instance(target).out_of_sync,
                             LookupDressedEigenstates(Instance(target), param_index)))

CallDressedEigenenergies(target, param_index) ==
    /\ "SpectrumLookup" \in host
    /\ Instance(target).present
    /\ Query("dressed_eigenenergies",
             Args(PyNone, None, FALSE, None, PyInt(param_index), target),
             CheckSyncStatus(Instance(target).out_of_sync,
                             LookupDressedEigenenergies(Instance(target), param_index)))

CallEnergyBareIndex(target, bare_tuple, param_index) ==
    /\ "SpectrumLookup" \in host
    /\ Instance(target).present
    /\ Query("energy_bare_index",
             Args(bare_tuple, None, FALSE, None, PyInt(param_index), target),
             CheckSyncStatus(Instance(target).out_of_sync,
                             LookupEnergyBareIndex(Instance(target), bare_tuple, param_index)))

CallEnergyDressedIndex(target, d, param_index) ==
    /\ "SpectrumLookup" \in host
    /\ Instance(target).present
    /\ Query("energy_dressed_index",
             Args(PyNone, d, FALSE, None, PyInt(param_index), target),
             CheckSyncStatus(Instance(target).out_of_sync,
                             LookupEnergyDressedIndex(Instance(target), d, param_index)))

CallBareEigenstates(target, subsys_index, param_index) ==
    /\ "SpectrumLookup" \in host
    /\ Instance(target).present
    /\ Query("bare_eigenstates",
             Args(PyNone, None, FALSE, subsys_index, PyInt(param_index), target),
             CheckSyncStatus(Instance(target).out_of_sync,
                             LookupBareEigenstates(Instance(target), subsys_index, param_index)))

CallBareEigenenergies(target, subsys_index, param_index) ==
    /\ "SpectrumLookup" \in host
    /\ Instance(target).present
    /\ Query("bare_eigenenergies",
             Args(PyNone, None, FALSE, subsys_index, PyInt(param_index), target),
             CheckSyncStatus(Instance(target).out_of_sync,
                             LookupBareEigenenergies(Instance(target), subsys_index, param_index)))

\* SpectrumLookup.bare_productstate, which carries no synchronization check
CallBareProductstate(target, bare_index) ==
    /\ "SpectrumLookup" \in host
    /\ Instance(target).present
    /\ Query("bare_productstate",
             Args(bare_index, None, FALSE, None, PyNone, target),
             IF Instance(target).has_framework
             THEN BareProductstate(subsystem_dims, bare_index)
             ELSE Raised("AttributeError"))

(***************************************************************************)
(* Queries of the host of SpectrumLookupMixin                              *)
(***************************************************************************)
\* <ParameterSweep>[key]: pre-slicing stores the key as the current indices
PreSlice(key) ==
    /\ "SpectrumLookupMixin" \in host
    /\ current_param_indices' = key
    /\ Called("__getitem__", NoArgs, NoResult)
    /\ UNCHANGED <<dcpl_vars, host, subsystem_dims, out_of_sync, lookup_vars, io_vars,
                   parameters_counts, data_evecs, data_evals, data_bare_evecs,
                   data_bare_evals, data_dressed_indices, evals_count,
                   ignore_hybridization, mapper_vars>>

CallMixinDressedIndex(bare_labels, param_indices) ==
    /\ "SpectrumLookupMixin" \in host
    /\ Query("dressed_index",
             Args(bare_labels, None, FALSE, None, param_indices, "self"),
             CheckSyncStatus(out_of_sync, MixinDressedIndex(bare_labels, param_indices)))

CallMixinBareIndex(d, param_indices) ==
    /\ "SpectrumLookupMixin" \in host
    /\ Query("bare_index",
             Args(PyNone, d, FALSE, None, param_indices, "self"),
             CheckSyncStatus(out_of_sync, MixinBareIndex(d, param_indices)))

\* an eigensys that runs its body whatever the synchronization flag
CallMixinEigensysUnchecked(param_indices) ==
    /\ "SpectrumLookupMixin" \in host
    /\ Query("eigensys",
             Args(PyNone, None, FALSE, None, param_indices, "self"),
             MixinEigensys(param_indices))

CallMixinEigensys(param_indices) ==
    /\ "SpectrumLookupMixin" \in host
    /\ Query("eigensys",
             Args(PyNone, None, FALSE, None, param_indices, "self"),
             CheckSyncStatus(out_of_sync, MixinEigensys(param_indices)))

\* an eigenvals that resets the current indices as the pre-slicing queries do
CallMixinEigenvalsResetting(param_indices) ==
    /\ "SpectrumLookupMixin" \in host
    /\ Called("eigenvals",
              Args(PyNone, None, FALSE, None, param_indices, "self"),
              CheckSyncStatus(out_of_sync, MixinEigenvals(param_indices)))
    /\ current_param_indices' = PySlice
    /\ UNCHANGED <<dcpl_vars, host, subsystem_dims, out_of_sync, lookup_vars, io_vars,
                   parameters_counts, data_evecs, data_evals, data_bare_evecs,
                   data_bare_evals, data_dressed_indices, evals_count,
                   ignore_hybridization, mapper_vars>>

CallMixinEigenvals(param_indices) ==
    /\ "SpectrumLookupMixin" \in host
    /\ Query("eigenvals",
             Args(PyNone, None, FALSE, None, param_indices, "self"),
             CheckSyncStatus(out_of_sync, MixinEigenvals(param_indices)))

CallMixinEnergyByBareIndex(bare_tuple, subtract_ground, param_indices) ==
    /\ "SpectrumLookupMixin" \in host
    /\ Query("energy_by_bare_index",
             Args(bare_tuple, None, subtract_ground, None, param_indices, "self"),
             CheckSyncStatus(out_of_sync,
                             MixinEnergyByBareIndex(bare_tuple, subtract_ground,
                                                    param_indices)))

\* energy_by_dressed_index: a body that has run has reset the current indices
\* and, subtracting the ground energies from a view, written to _data["evals"]
CallMixinEnergyByDressedIndex(d, subtract_ground, param_indices) ==
    /\ "SpectrumLookupMixin" \in host
    /\ Called("energy_by_dressed_index",
              Args(PyNone, d, subtract_ground, None, param_indices, "self"),
              CheckSyncStatus(out_of_sync,
                              MixinEnergyByDressedIndex(d, subtract_ground,
                                                        param_indices).value))
    /\ IF out_of_sync
       THEN UNCHANGED <<current_param_indices, data_evals>>
       ELSE /\ current_param_indices' = PySlice
            /\ data_evals' = MixinEnergyByDressedIndex(d, subtract_ground,
                                                       param_indices).evals
    /\ UNCHANGED <<dcpl_vars, host, subsystem_dims, out_of_sync, lookup_vars, io_vars,
                   parameters_counts, data_evecs, data_bare_evecs, data_bare_evals,
                   data_dressed_indices, evals_count, ignore_hybridization,
                   mapper_vars>>

\* a body that leaves the current indices as pre-slicing set them
KeepCurrentIndices ==
    UNCHANGED <<dcpl_vars, host, subsystem_dims, out_of_sync, lookup_vars, io_vars,
                parameters_counts, data_evecs, data_evals, data_bare_evecs,
                data_bare_evals, data_dressed_indices, evals_count,
                ignore_hybridization, mapper_vars, current_param_indices>>

\* the state change of bare_eigenstates and bare_eigenvals: a body that has
\* run has reset the current indices
ResetCurrentIndices ==
    /\ current_param_indices' = IF out_of_sync THEN current_param_indices ELSE PySlice
    /\ UNCHANGED <<dcpl_vars, host, subsystem_dims, out_of_sync, lookup_vars, io_vars,
                   parameters_counts, data_evecs, data_evals, data_bare_evecs,
                   data_bare_evals, data_dressed_indices, evals_count,
                   ignore_hybridization, mapper_vars>>

CallMixinBareEigenstates(subsys_index, param_indices) ==
    /\ "SpectrumLookupMixin" \in host
    /\ Called("bare_eigenstates",
              Args(PyNone, None, FALSE, subsys_index, param_indices, "self"),
              CheckSyncStatus(out_of_sync,
                              MixinBareEigenstates(subsys_index, param_indices)))
    /\ ResetCurrentIndices

CallMixinBareEigenvals(subsys_index, param_indices) ==
    /\ "SpectrumLookupMixin" \in host
    /\ Called("bare_eigenvals",
              Args(PyNone, None, FALSE, subsys_index, param_indices, "self"),
              CheckSyncStatus(out_of_sync,
                              MixinBareEigenvals(subsys_index, param_indices)))
    /\ ResetCurrentIndices

\* SpectrumLookupMixin.bare_productstate, which carries no synchronization
\* check
CallMixinBareProductstate(bare_index) ==
    /\ "SpectrumLookupMixin" \in host
    /\ Query("bare_productstate",
             Args(bare_index, None, FALSE, None, PyNone, "self"),
             BareProductstate(subsystem_dims, bare_index))

(***************************************************************************)
(* Arguments of the calls                                                  *)
(***************************************************************************)
\* bare labels: tuples of one and of two components, and an int
LabelArgs ==
    {PyTuple(l) : l \in UNION {[1..k -> 0..MaxLabelEntry] : k \in 1..2}}
        \cup {PyInt(0)}

DressedArgs == 0..MaxDressedArg

\* parameter indices of a SpectrumLookup, one of them out of range
ParamIndexArgs == 0..Len(state_table)

SubsysArgs == 0..(Len(subsystem_dims) - 1)

\* tuples of ints and slices that index the leading axes of the grid
IndexTuples(counts) ==
    UNION {{t \in [1..k -> {SliceAll} \cup (0..(SeqMax(counts) - 1))] :
               \A i \in 1..k : t[i] = SliceAll \/ t[i] < counts[i]} :
           k \in 0..Len(counts)}

\* parameter specifications of the mixin: None, an int, a tuple
ParamArgs ==
    {PyNone, PyInt(1)} \cup {PyTuple(t) : t \in IndexTuples(parameters_counts)}

\* keys of pre-slicing: the whole grid, its first point, and the points of
\* its first parameter value
SliceKeys ==
    {PySlice,
     PyTuple([i \in 1..Len(parameters_counts) |-> 0]),
     PyTuple([i \in 1..Len(parameters_counts) |-> IF i = 1 THEN 0 ELSE SliceAll])}

(***************************************************************************)
(* Specification SpecBuild: builds of the lookup table interleaved with    *)
(* recomputations of the eigenvectors                                      *)
(***************************************************************************)
GridPoints ==
    IF "SpectrumLookup" \in host
    THEN {<<p - 1>> : p \in 1..Len(state_table)}
    ELSE Points(parameters_counts)

InitBuild ==
    \/ InitSpectrumLookup(LookupDims, StateTables(EvecsMenu))
    \/ InitMixinHost(LookupDims, GridShapes, EvecsMenu, BOOLEAN)

NextBuild ==
    \/ Run
    \/ CallGenerateLookup
    \/ \E point \in GridPoints, evecs \in EvecsMenu : SpectrumChanged(point, evecs)

SpecBuild == InitBuild /\ [][NextBuild]_vars

(***************************************************************************)
(* Specification Spec: build, serialization round trip and the two index   *)
(* lookups of both classes, in sync and out of sync                        *)
(***************************************************************************)
\* eigenvector pairs: swapped, and both nearest to bare position 0
LookupEvecs == { << <<6, -8>>, <<-8, 6>> >>, << <<-8, 6>>, <<-8, 6>> >> }

Init ==
    \/ InitSpectrumLookup(LookupDims, StateTables(LookupEvecs))
    \/ InitMixinHost(LookupDims, GridShapes, LookupEvecs, BOOLEAN)

Next ==
    \/ Run
    \/ CallGenerateLookup
    \/ MarkOutOfSync
    \/ Serialize
    \/ Deserialize
    \/ \E target \in {"self", "restored"}, bare_labels \in LabelArgs,
          param_index \in ParamIndexArgs :
          CallDressedIndex(target, bare_labels, param_index)
    \/ \E target \in {"self", "restored"}, d \in DressedArgs,
          param_index \in ParamIndexArgs :
          CallBareIndex(target, d, param_index)
    \/ \E key \in SliceKeys : PreSlice(key)
    \/ \E bare_labels \in LabelArgs, param_indices \in ParamArgs :
          CallMixinDressedIndex(bare_labels, param_indices)
    \/ \E d \in DressedArgs, param_indices \in ParamArgs :
          CallMixinBareIndex(d, param_indices)

Spec == Init /\ [][Next]_vars

(***************************************************************************)
(* Specification SpecQueries: every query operation of both classes, in    *)
(* sync and out of sync, over one eigensystem per grid                     *)
(***************************************************************************)
QueryEvecs == { << <<-8, 6>>, <<-8, 6>> >> }

InitQueries ==
    \/ InitSpectrumLookup(LookupDims, {[p \in 1..2 |-> evecs] : evecs \in QueryEvecs})
    \/ InitMixinHost(LookupDims, {<<1, 2>>}, QueryEvecs, {FALSE})

NextQueries ==
    \/ Run
    \/ CallGenerateLookup
    \/ MarkOutOfSync
    \/ \E key \in SliceKeys : PreSlice(key)
    \/ \E bare_labels \in LabelArgs, param_index \in ParamIndexArgs :
          \/ CallDressedIndex("self", bare_labels, param_index)
          \/ CallEnergyBareIndex("self", bare_labels, param_index)
    \/ \E d \in DressedArgs, param_index \in ParamIndexArgs :
          \/ CallBareIndex("self", d, param_index)
          \/ CallEnergyDressedIndex("self", d, param_index)
    \/ \E param_index \in ParamIndexArgs :
          \/ CallDressedEigenstates("self", param_index)
          \/ CallDressedEigenenergies("self", param_index)
    \/ \E subsys_index \in SubsysArgs, param_index \in ParamIndexArgs :
          \/ CallBareEigenstates("self", subsys_index, param_index)
          \/ CallBareEigenenergies("self", subsys_index, param_index)
    \/ \E bare_index \in LabelArgs :
          \/ CallBareProductstate("self", bare_index)
          \/ CallMixinBareProductstate(bare_index)
    \/ \E bare_labels \in LabelArgs, param_indices \in ParamArgs :
          \/ CallMixinDressedIndex(bare_labels, param_indices)
          \/ \E subtract_ground \in BOOLEAN :
                CallMixinEnergyByBareIndex(bare_labels, subtract_ground, param_indices)
    \/ \E d \in DressedArgs, param_indices \in ParamArgs :
          \/ CallMixinBareIndex(d, param_indices)
          \/ CallMixinEnergyByDressedIndex(d, FALSE, param_indices)
    \/ \E param_indices \in ParamArgs :
          \/ CallMixinEigensys(param_indices)
          \/ CallMixinEigenvals(param_indices)
    \/ \E subsys_index \in SubsysArgs, param_indices \in ParamArgs :
          \/ CallMixinBareEigenstates(subsys_index, param_indices)
          \/ CallMixinBareEigenvals(subsys_index, param_indices)

SpecQueries == InitQueries /\ [][NextQueries]_vars

(***************************************************************************)
(* Claims on the bare label enumerator (SpecLabels)                        *)
(***************************************************************************)
\* the row-major decomposition of position p for the dimensions dims
RowMajorLabel(p, dims) ==
    [j \in 1..Len(dims) |->
        (p \div SeqProduct(SubSeq(dims, j + 1, Len(dims)))) % dims[j]]

IsRowMajorEnumeration(labels, dims) ==
    /\ Len(labels) = SeqProduct(dims)
    /\ \A p \in 1..Len(labels) : labels[p] = RowMajorLabel(p - 1, dims)
    /\ \A p, q \in 1..Len(labels) : p # q => labels[p] # labels[q]

LabelsOfTwoByThree == << <<0, 0>>, <<0, 1>>, <<0, 2>>, <<1, 0>>, <<1, 1>>, <<1, 2>> >>

\* C1: for every tuple of subsystem dimensions both enumerators return
\* exactly d_0*...*d_{k-1} pairwise distinct labels, the label at position p
\* being the row-major decomposition of p; dimensions (2,3) give
\* [(0,0),(0,1),(0,2),(1,0),(1,1),(1,2)].
C1_BareLabelsRowMajor ==
    /\ canonical_bare_labels # Unset =>
          /\ IsRowMajorEnumeration(canonical_bare_labels, subsystem_dims)
          /\ subsystem_dims = <<2, 3>> => canonical_bare_labels = LabelsOfTwoByThree
    /\ last_op = "_bare_product_states_labels" =>
          /\ IsRowMajorEnumeration(result.val, subsystem_dims)
          /\ subsystem_dims = <<2, 3>> => result.val = LabelsOfTwoByThree

C1_Witness ==
    /\ subsystem_dims = <<2, 3>>
    /\ canonical_bare_labels = LabelsOfTwoByThree
    /\ last_op = "_bare_product_states_labels"
    /\ result.val = LabelsOfTwoByThree

(***************************************************************************)
(* Claims on the mappers (SpecMapper)                                      *)
(***************************************************************************)
\* the eigenvectors of the one parameter point, and their squared overlaps
PointEvecs == state_table[1]
SquaredOverlap(d, b) == PointEvecs[d + 1][b + 1] * PointEvecs[d + 1][b + 1]
DressedRange == 0..(evals_count - 1)
BareRange == 0..(Dimension(subsystem_dims) - 1)

\* C2: whatever the overlap matrix and the override flag, the assignment of
\* SpectrumLookupMixin._generate_single_mapping never maps two distinct bare
\* positions to the same dressed index.
C2_MixinMappingInjective ==
    pc = "done" =>
        \A b1, b2 \in BareRange :
            (b1 # b2 /\ result.val[b1 + 1] # None) => result.val[b1 + 1] # result.val[b2 + 1]

\* two dressed states overlap most with the same bare position and both are
\* assigned
C2_Witness ==
    /\ pc = "done"
    /\ evals_count = 2
    /\ \E b \in BareRange :
          \A d \in DressedRange : \A c \in BareRange :
              SquaredOverlap(d, c) < SquaredOverlap(d, b) \/ (c >= b /\ SquaredOverlap(d, c) = SquaredOverlap(d, b))
    /\ \A d \in DressedRange : \E b \in BareRange : result.val[b + 1] = d

\* C3: the bare-indexed mapper gives bare position b a dressed index exactly
\* when the largest squared overlap of column b exceeds 0.5, and that index
\* is the lowest dressed index attaining the largest magnitude of the
\* column; otherwise the entry is None.
C3_BareIndexedArgmax ==
    dressed_indices # Unset =>
        \A b \in BareRange :
            LET entry == dressed_indices[1][b + 1]
            IN  /\ (entry # None) <=> (\E d \in DressedRange : SquaredOverlap(d, b) > OVERLAP_THRESHOLD)
                /\ entry # None =>
                      /\ entry \in DressedRange
                      /\ \A d \in DressedRange : SquaredOverlap(d, b) <= SquaredOverlap(entry, b)
                      /\ \A d \in DressedRange : d < entry => SquaredOverlap(d, b) < SquaredOverlap(entry, b)

\* a column whose largest magnitude two dressed states share, and a column
\* below the threshold
C3_Witness ==
    /\ dressed_indices # Unset
    /\ state_table[1] = << <<-8, 6>>, <<-8, 0>> >>
    /\ dressed_indices[1] = <<0, None>>

\* C4: with the override off, a state whose largest squared overlap does not
\* exceed 0.5 is left unassigned by both mappers (a bare position in the
\* bare-indexed one, a dressed index in the injective one), and the mapper
\* returns normally.
C4_ThresholdRejection ==
    /\ dressed_indices # Unset =>
          \A b \in BareRange :
              (\A d \in DressedRange : SquaredOverlap(d, b) <= OVERLAP_THRESHOLD)
                  => dressed_indices[1][b + 1] = None
    /\ (pc = "done" /\ ~ignore_hybridization) =>
          /\ result.kind = "list"
          /\ \A d \in DressedRange :
                (\A b \in BareRange : SquaredOverlap(d, b) <= OVERLAP_THRESHOLD)
                    => \A b \in BareRange : result.val[b + 1] # d

\* both mappers have run on a state whose nearest candidate has squared
\* overlap 0.36
C4_Witness ==
    /\ pc = "done"
    /\ ~ignore_hybridization
    /\ state_table[1] = << <<6, 0>>, <<0, -8>> >>
    /\ dressed_indices[1] = <<None, 1>>
    /\ result.val = <<None, 1>>


(***************************************************************************)
(* Claims on the build (SpecBuild)                                         *)
(***************************************************************************)
Builds == {"run", "generate_lookup"}

\* what a build writes, and the eigenvectors it reads
Tables == <<canonical_bare_labels, dressed_indices, data_dressed_indices>>
Eigenvectors == <<state_table, data_evecs>>

\* the row of the table of the mixin at a grid point
TableRow(point) ==
    [b \in 1..Dimension(subsystem_dims) |-> data_dressed_indices.at[Append(point, b - 1)]]

\* grid points with the same eigenvectors have the same row of the table
EqualInputEqualRow ==
    IF "SpectrumLookup" \in host
    THEN \A p, q \in 1..Len(state_table) :
            state_table[p] = state_table[q] => dressed_indices[p] = dressed_indices[q]
    ELSE \A p, q \in Points(parameters_counts) :
            EvecsAt(data_evecs, p) = EvecsAt(data_evecs, q) => TableRow(p) = TableRow(q)

AnswerOfOriginal ==
    IF last_op = "dressed_index"
    THEN LookupDressedIndex(Self, last_args.bare_labels, last_args.param_indices.items[1])
    ELSE LookupBareIndex(Self, last_args.d, last_args.param_indices.items[1])

MixinCallInSync(op) ==
    /\ "SpectrumLookupMixin" \in host
    /\ last_op = op
    /\ ~out_of_sync

ValueErrors ==
    {"ValueError: all parameters must be fixed",
     "ValueError: could not identify a bare index"}

\* the index tuple fixes every parameter axis to an index of the grid
FixesAllAxes(index_tuple) ==
    /\ Len(index_tuple) = Len(parameters_counts)
    /\ \A i \in 1..Len(index_tuple) :
          index_tuple[i] # SliceAll /\ index_tuple[i] < parameters_counts[i]

\* C7: SpectrumLookupMixin.bare_index raises a ValueError and returns no
\* label whenever the parameter specification it resolves has fewer entries
\* than there are parameter axes or has a slice among its entries.
C7_PartialSpecificationRejected ==
    (/\ MixinCallInSync("bare_index")
     /\ data_dressed_indices # NoArray
     /\ LET index_tuple == SetNpIndexTuple(last_args.param_indices)
        IN  \/ Len(index_tuple) < Len(parameters_counts)
            \/ \E i \in 1..Len(index_tuple) : index_tuple[i] = SliceAll)
        => (result.kind = "raise" /\ result.val \in ValueErrors)

\* C8: SpectrumLookupMixin.bare_index, called on a lookup in sync at a fully
\* fixed parameter point with a dressed index that occurs at no bare
\* position of the table at that point, raises the lookup-failure
\* ValueError; it returns neither a label nor None.
C8_NotFoundRaises ==
    (/\ MixinCallInSync("bare_index")
     /\ data_dressed_indices # NoArray
     /\ FixesAllAxes(SetNpIndexTuple(last_args.param_indices))
     /\ \A b \in 1..Dimension(subsystem_dims) :
           TableRow(SetNpIndexTuple(last_args.param_indices))[b] # last_args.d)
        => result = Raised("ValueError: could not identify a bare index")

\* dressed index 1 is within the eigenvalue count and is assigned to no bare
\* position at the point, both dressed states being nearest to position 0
C8_Witness ==
    /\ MixinCallInSync("bare_index")
    /\ data_dressed_indices # NoArray
    /\ parameters_counts = <<1, 2>>
    /\ last_args.param_indices = PyTuple(<<0, 1>>)
    /\ last_args.d = 1
    /\ TableRow(<<0, 1>>) = <<0, None>>
    /\ result = Raised("ValueError: could not identify a bare index")

\* the value is one of the labels (n_0, ..., n_{k-1}) with n_i < d_i
InCanonicalList(bare_labels) ==
    /\ bare_labels.type = "tuple"
    /\ Len(bare_labels.items) = Len(subsystem_dims)
    /\ \A i \in 1..Len(subsystem_dims) : bare_labels.items[i] < subsystem_dims[i]

\* C9: dressed_index, of a SpectrumLookup that has its label list and of the
\* mixin, called on a lookup in sync with a value that is not in the
\* canonical label list (a component out of range, a wrong number of
\* components, a non-tuple), returns None and does not raise.
C9_UnknownLabelReturnsNone ==
    (/\ last_op = "dressed_index"
     /\ ~InCanonicalList(last_args.bare_labels)
     /\ IF "SpectrumLookup" \in host
        THEN /\ ~Instance(last_args.target).out_of_sync
             /\ Instance(last_args.target).canonical_bare_labels # Unset
        ELSE ~out_of_sync)
        => result = ReturnedNone

\* the mixin was asked for a label whose first component is out of range, at
\* a point of a generated table
C9_Witness ==
    /\ MixinCallInSync("dressed_index")
    /\ data_dressed_indices # NoArray
    /\ subsystem_dims = <<1, 2>>
    /\ last_args.bare_labels = PyTuple(<<1, 1>>)
    /\ last_args.param_indices = PyTuple(<<0>>)
    /\ result = ReturnedNone

(***************************************************************************)
(* Claims on the synchronization check (SpecQueries)                       *)
(***************************************************************************)
QueryOps ==
    {"dressed_index", "bare_index", "dressed_eigenstates", "dressed_eigenenergies",
     "energy_bare_index", "energy_dressed_index", "bare_eigenstates",
     "bare_eigenenergies", "eigensys", "eigenvals", "energy_by_bare_index",
     "energy_by_dressed_index", "bare_eigenvals", "bare_productstate"}

\* everything but the record of the call
object_vars == <<dcpl_vars, host, subsystem_dims, out_of_sync, lookup_vars, io_vars,
                 sweep_vars, mapper_vars>>

SweepParamArgs == ParamArgs \cup {PyInt(0), PySlice}

InitSweep == InitMixinHost({<<1, 2>>}, GridShapes, LookupEvecs, {FALSE})

NextSweep ==
    \/ CallGenerateLookup
    \/ \E key \in SliceKeys : PreSlice(key)
    \/ \E bare_labels \in LabelArgs, param_indices \in SweepParamArgs :
          \/ CallMixinDressedIndex(bare_labels, param_indices)
          \/ \E subtract_ground \in BOOLEAN :
                CallMixinEnergyByBareIndex(bare_labels, subtract_ground, param_indices)
    \/ \E param_indices \in SweepParamArgs : CallMixinEigenvals(param_indices)

SpecSweep == InitSweep /\ [][NextSweep]_vars

(***************************************************************************)
(* Claims on the parameter-index specifications (SpecSweep)                *)
(***************************************************************************)
\* the recorded call passed a non-empty tuple of ints and slices that
\* indexes leading axes of the grid
PassedIndexTuple ==
    /\ last_args.param_indices.type = "tuple"
    /\ last_args.param_indices.items # <<>>
    /\ Len(last_args.param_indices.items) <= Len(parameters_counts)

\* the tuple with a slice for every axis it does not reach
Padded(index_tuple) ==
    [i \in 1..Len(parameters_counts) |->
        IF i <= Len(index_tuple) THEN index_tuple[i] ELSE SliceAll]

\* the canonical position of a label of the canonical list
CanonicalPosition(label) ==
    CHOOSE pos \in 0..(Dimension(subsystem_dims) - 1) :
        RowMajorLabel(pos, subsystem_dims) = label

\* the table entries at canonical position pos over the selected grid
\* points: one entry when every axis is fixed, else an array over the free
\* parameter axes
EntriesAt(index_tuple, pos) ==
    NumpyIndex(data_dressed_indices, Append(Padded(index_tuple), pos))

\* the returned value is the scalar x
ReturnsScalar(x) ==
    \/ result.kind = "float" /\ x # NaN /\ result.val = x
    \/ result.kind = "nan" /\ x = NaN
    \/ result.kind = "array" /\ result.val.shape = <<>> /\ result.val.at[<<>>] = x

\* the energy the claim gives the grid point behind index t of the selection
EnergyAt(index_tuple, t, d, subtract_ground) ==
    LET energies == NumpyIndex(data_evals, Padded(index_tuple)).val
    IN  IF d = None THEN NaN
        ELSE IF subtract_ground
        THEN energies.at[Append(t, d)] - energies.at[Append(t, 0)]
        ELSE energies.at[Append(t, d)]

\* C11: energy_by_bare_index(label, subtract_ground, param_indices) of a
\* label of the canonical list is element-wise over the selected grid
\* points (one point for a full specification, an array for a partial one):
\* NaN where dressed_index(label, p) is None, and otherwise evals[p][d] with
\* d = dressed_index(label, p), less evals[p][0] when subtract_ground is set.
C11_EnergyByBareIndexElementwise ==
    (/\ MixinCallInSync("energy_by_bare_index")
     /\ data_dressed_indices # NoArray
     /\ InCanonicalList(last_args.bare_labels)
     /\ PassedIndexTuple) =>
        LET index_tuple == last_args.param_indices.items
            entries == EntriesAt(index_tuple, CanonicalPosition(last_args.bare_labels.items))
        IN  IF entries.kind = "scalar"
            THEN ReturnsScalar(
                     IF entries.val = None THEN NaN
                     ELSE IF last_args.subtract_ground
                     THEN data_evals.at[Append(index_tuple, entries.val)]
                             - data_evals.at[Append(index_tuple, 0)]
                     ELSE data_evals.at[Append(index_tuple, entries.val)])
            ELSE /\ result.kind = "array"
                 /\ result.val.shape = entries.val.shape
                 /\ \A t \in DOMAIN entries.val.at :
                       result.val.at[t] = EnergyAt(index_tuple, t, entries.val.at[t],
                                                   last_args.subtract_ground)

\* C12: SpectrumLookupMixin.dressed_index(label, param_indices) for a label
\* at canonical position pos returns the scalar table[p][pos] when
\* param_indices fixes every parameter axis, and otherwise an array over the
\* free parameter axes whose element at each free grid point p is
\* table[p][pos]; the axis indexed by pos is always the bare-label axis.
C12_DressedIndexOverFreeAxes ==
    (/\ MixinCallInSync("dressed_index")
     /\ data_dressed_indices # NoArray
     /\ InCanonicalList(last_args.bare_labels)
     /\ PassedIndexTuple) =>
        LET entries == EntriesAt(last_args.param_indices.items,
                                 CanonicalPosition(last_args.bare_labels.items))
        IN  result = IF entries.kind = "scalar" THEN ReturnedEntry(entries.val) ELSE entries

\* C14: every query of the mixin uses the parameter-index specification the
\* caller passes (a full tuple, a partial tuple, a single index, a slice), a
\* non-tuple wrapped into a one-element tuple, and falls back to the stored
\* current indices only when the caller passes None.
C14_PassedSpecificationIsUsed ==
    MixinCallInSync("eigenvals") =>
        result = ReturnedEnergies(
                     NumpyIndex(data_evals,
                                IF last_args.param_indices = PyNone
                                THEN current_param_indices.items
                                ELSE last_args.param_indices.items))

(***************************************************************************)
(* Claims on the inverse lookups of the mixin (Spec)                       *)
(***************************************************************************)
\* the first position (from 1) of the row whose entry is d
FirstPosition(row, d) ==
    CHOOSE b \in 1..Len(row) : row[b] = d /\ \A c \in 1..(b - 1) : row[c] # d

\* C15: at every fully fixed parameter point p of a table built by the
\* injective mapper, bare_index(d, p) returns the canonical label at the
\* first table position whose entry equals d,
\* dressed_index(bare_index(d, p), p) = d for every dressed index d present
\* in the table, and bare_index(dressed_index(l, p), p) = l for every label
\* l whose entry is not None.
C15_MutuallyInverse ==
    ("SpectrumLookupMixin" \in host /\ ~out_of_sync /\ data_dressed_indices # NoArray) =>
        LET labels == BareProductStatesLabels(subsystem_dims)
        IN  /\ \A p \in Points(parameters_counts) :
                  LET row == TableRow(p)
                  IN  /\ \A d \in 0..(evals_count - 1) :
                            (\E b \in 1..Len(row) : row[b] = d) =>
                                LET found == MixinBareIndex(d, PyTuple(p))
                                IN  /\ found = ReturnedLabel(labels[FirstPosition(row, d)])
                                    /\ MixinDressedIndex(PyTuple(found.val), PyTuple(p))
                                          = ReturnedInt(d)
                      /\ \A b \in 1..Len(row) :
                            row[b] # None =>
                                LET found == MixinDressedIndex(PyTuple(labels[b]), PyTuple(p))
                                IN  /\ found = ReturnedInt(row[b])
                                    /\ MixinBareIndex(found.val, PyTuple(p))
                                          = ReturnedLabel(labels[b])
            /\ (/\ last_op = "bare_index"
                /\ FixesAllAxes(SetNpIndexTuple(last_args.param_indices))
                /\ \E b \in 1..Len(labels) :
                      TableRow(SetNpIndexTuple(last_args.param_indices))[b] = last_args.d)
                  => result = ReturnedLabel(
                         labels[FirstPosition(TableRow(SetNpIndexTuple(last_args.param_indices)),
                                              last_args.d)])

\* bare_index(1) at a point whose two dressed states are swapped returns the
\* label of position 0
C15_Witness ==
    /\ MixinCallInSync("bare_index")
    /\ data_dressed_indices # NoArray
    /\ parameters_counts = <<1, 2>>
    /\ last_args.param_indices = PyTuple(<<0, 1>>)
    /\ last_args.d = 1
    /\ TableRow(<<0, 1>>) = <<1, 0>>
    /\ result = ReturnedLabel(<<0, 0>>)

(***************************************************************************)
(* Specification SpecGenerate: generate_lookup point by point, over grids  *)
(* of one and two parameter axes; the for loop is sequential code, so an   *)
(* iteration or a return that is enabled is eventually run                 *)
(***************************************************************************)
GenerateShapes == GridShapes \cup {<<2, 2>>}

InitGenerate == InitMixinHost(LookupDims, GenerateShapes, EvecsMenu, BOOLEAN)

NextGenerate == GenerateLookupBegin \/ GenerateLookupPoint \/ GenerateLookupReturn

\* for index in param_indices: the loop takes the next index from its
\* iterator; the step of GenerateLookupPoint as seen on the iterator
TakeNextIndex ==
    /\ pc = "lookup"
    /\ lookup_indices # <<>>
    /\ lookup_indices' = Tail(lookup_indices)

SpecGenerate ==
    /\ InitGenerate
    /\ [][NextGenerate]_vars
    /\ WF_lookup_indices(TakeNextIndex)
    /\ WF_vars(GenerateLookupReturn)

\* the mapper's result for a grid point
MapperResult(point) ==
    MixinGenerateSingleMapping(EvecsAt(data_evecs, point), Dimension(subsystem_dims),
                               evals_count, ignore_hybridization)

\* generate_lookup has returned
GenerateLookupReturned ==
    /\ last_op = "generate_lookup"
    /\ pc = "ready"
    /\ result.kind = "array"

\* while the loop runs, the mapper has been called once for each index the
\* iterator has given out and not at all for those it still holds
CalledOncePerIndexTaken ==
    pc = "lookup" =>
        \A point \in Points(parameters_counts) :
            /\ mapper_calls[point] =
                  IF \E i \in 1..Len(lookup_indices) : lookup_indices[i] = point
                  THEN 0 ELSE 1
            /\ \A i, j \in 1..Len(lookup_indices) :
                  lookup_indices[i] = lookup_indices[j] => i = j

\* the returned table is dense, of shape counts + (number of labels,), its
\* slice at each grid point is the mapper's result for the point, and the
\* mapper was called once for the point
ReturnedTableIsDense ==
    GenerateLookupReturned =>
        /\ result.val.shape =
              Append(parameters_counts, Len(BareProductStatesLabels(subsystem_dims)))
        /\ DOMAIN result.val.at = Points(result.val.shape)
        /\ \A point \in Points(parameters_counts) :
              /\ mapper_calls[point] = 1
              /\ ArrayToList(NumpyIndex(result.val, point).val) = MapperResult(point)
        /\ \A t \in DOMAIN result.val.at :
              result.val.at[t] = None \/ result.val.at[t] \in 0..(evals_count - 1)
        /\ result.val = GenerateLookup(data_evecs, parameters_counts,
                                       Dimension(subsystem_dims), evals_count,
                                       ignore_hybridization)

\* C13: generate_lookup invokes the mapper exactly once for each point of
\* the Cartesian product of the per-axis counts, terminates, and returns a
\* dense table of shape (axis_0_count, ..., axis_{m-1}_count, number of
\* canonical bare labels) whose slice at grid point p is the mapper's result
\* for p, every entry being a dressed index or None.
C13_GenerateLookupDense ==
    /\ [](CalledOncePerIndexTaken /\ ReturnedTableIsDense)
    /\ (pc = "lookup") ~> GenerateLookupReturned

\* a table over a grid of two by two points, one of them with a None
C13_Witness ==
    /\ GenerateLookupReturned
    /\ parameters_counts = <<2, 2>>
    /\ ArrayToList(NumpyIndex(result.val, <<1, 0>>).val) = <<1, 0>>
    /\ ArrayToList(NumpyIndex(result.val, <<0, 1>>).val) = <<0, None>>

(***************************************************************************)
(* Claims on the loop of the injective mapper and on truncated spectra     *)
(* (SpecMapper)                                                            *)
(***************************************************************************)
\* C16: in the injective mapper, for any overlap matrix and either setting
\* of the override flag, once a bare position has been assigned to a
\* dressed index no later (higher) dressed index can claim it: its entry is
\* still that dressed index when the mapper finishes.
C16_AssignedPositionKept ==
    [][pc = "loop" =>
          \A pos \in DOMAIN mapping : mapping[pos] # None => mapping'[pos] = mapping[pos]]_vars

\* C17: with the override flag set the injective mapper produces a full
\* assignment for any overlap matrix: every dressed index in
\* [0, dressed_count) appears at exactly one bare position of the result.
C17_OverrideAssignsAll ==
    (pc = "done" /\ ignore_hybridization) =>
        \A d \in DressedRange :
            Cardinality({b \in BareRange : result.val[b + 1] = d}) = 1

\* the bare positions the result gives to a dressed index lower than d
ClaimedBelow(d) ==
    {b \in BareRange : result.val[b + 1] # None /\ result.val[b + 1] < d}

\* among the positions no lower dressed index claimed, b is the first one
\* of the largest magnitude in row d
FirstLargestUnclaimed(d, b) ==
    /\ b \notin ClaimedBelow(d)
    /\ \A c \in BareRange \ ClaimedBelow(d) :
          /\ SquaredOverlap(d, c) <= SquaredOverlap(d, b)
          /\ c < b => SquaredOverlap(d, c) < SquaredOverlap(d, b)

\* the result of the mapper is the greedy assignment of the claim
GreedyAssignment ==
    (pc = "done" /\ ~ignore_hybridization) =>
        /\ \A b \in BareRange :
              result.val[b + 1] # None =>
                  /\ result.val[b + 1] \in DressedRange
                  /\ SquaredOverlap(result.val[b + 1], b) > OVERLAP_THRESHOLD
                  /\ FirstLargestUnclaimed(result.val[b + 1], b)
        /\ \A d \in DressedRange :
              (\A b \in BareRange : result.val[b + 1] # d) =>
                  \A b \in BareRange \ ClaimedBelow(d) :
                      SquaredOverlap(d, b) <= OVERLAP_THRESHOLD

\* the loop starts at dressed index 0, each iteration handles the next
\* dressed index, and an iteration writes nothing but its own dressed index
AscendingOrder ==
    /\ (pc # "loop" /\ pc' = "loop") => dressed_index' = 0
    /\ (pc = "loop" /\ pc' = "loop") =>
          /\ dressed_index' = dressed_index + 1
          /\ \A pos \in DOMAIN mapping :
                mapping'[pos] # mapping[pos] => mapping'[pos] = dressed_index

\* C18: in the injective mapper with the override off, dressed indices are
\* processed in ascending order and, whenever the result maps bare position
\* b to dressed index d, |M[d,b]|^2 > 0.5 and |M[d,b]| is the largest
\* magnitude in row d among the positions not claimed by a lower dressed
\* index (the lowest such position on ties); a dressed index is left out
\* only if no unclaimed position of its row has squared overlap above 0.5.
C18_GreedyAscending ==
    /\ []GreedyAssignment
    /\ [][~ignore_hybridization => AscendingOrder]_vars

\* both dressed states overlap most with bare position 0: the lower one
\* keeps it and the higher one takes its next best position
C18_Witness ==
    /\ pc = "done"
    /\ ~ignore_hybridization
    /\ PointEvecs = << <<-8, 6>>, <<-8, -8>> >>
    /\ result.val = <<0, 1>>

\* the squared norm of a ket, in hundredths
RECURSIVE NormSquared(_)
NormSquared(ket) ==
    IF ket = <<>> THEN 0 ELSE Head(ket) * Head(ket) + NormSquared(Tail(ket))

\* the eigenvectors are kets of norm at most one, as a diagonalisation
\* truncated to the bare basis gives them
Normalised == \A d \in DressedRange : NormSquared(PointEvecs[d + 1]) <= 100

\* the list has one entry per bare position, each None or a dressed index
OneEntryPerBarePosition(entries) ==
    /\ Len(entries) = Dimension(subsystem_dims)
    /\ \A b \in BareRange : entries[b + 1] = None \/ entries[b + 1] \in DressedRange

\* the number of bare positions that have a dressed index
AssignedCount(entries) == Cardinality({b \in BareRange : entries[b + 1] # None})

\* C19: when dressed_count is smaller than bare_count, the result of either
\* mapper still has exactly one entry per bare position, every non-None
\* entry lies in [0, dressed_count), at most dressed_count entries are
\* assigned, and all remaining bare positions are None.  For the
\* bare-indexed mapper the bound on the assigned entries is that of kets of
\* norm at most one, of which no two components exceed the threshold.
C19_TruncatedSpectrum ==
    evals_count < Dimension(subsystem_dims) =>
        /\ pc = "done" =>
              /\ OneEntryPerBarePosition(result.val)
              /\ AssignedCount(result.val) <= evals_count
        /\ dressed_indices # Unset =>
              /\ OneEntryPerBarePosition(dressed_indices[1])
              /\ Normalised => AssignedCount(dressed_indices[1]) <= evals_count

\* one dressed state over two bare positions: both mappers assign it to
\* position 1 and leave position 0 unassigned
C19_Witness ==
    /\ pc = "done"
    /\ evals_count = 1
    /\ Dimension(subsystem_dims) = 2
    /\ PointEvecs = << <<6, -8>> >>
    /\ result.val = <<None, 0>>
    /\ dressed_indices[1] = <<None, 0>>

(***************************************************************************)
(* Claim on the lifecycle of the stale state (Spec)                        *)
(***************************************************************************)
\* a query of the SpectrumLookup itself that follows run() does not fail as
\* stale
QueryAfterRunSucceeds ==
    (/\ "SpectrumLookup" \in host
     /\ last_op = "run"
     /\ last_op' \in {"dressed_index", "bare_index"}
     /\ last_args'.target = "self") => result' # Raised("StaleLookup")

\* C20: a newly constructed SpectrumLookup is in sync, and after the lookup
\* has been marked stale, rebuilding the table with run() puts it back in
\* sync, so that queries made after the rebuild no longer fail as stale.
C20_RunRestoresSync ==
    /\ []("SpectrumLookup" \in host => (last_op \in {"init", "run"} => ~out_of_sync))
    /\ [][QueryAfterRunSucceeds]_vars

(***************************************************************************)
(* Specification SpecEnergies: the two energy queries of the mixin with    *)
(* and without subtraction of the ground energy, on sweeps in sync.  The   *)
(* subtraction is followed for as long as no stored energy has moved by    *)
(* more than MaxDrift tenths from the value the sweep computed.            *)
(***************************************************************************)
MaxDrift == 2

\* no element of _data["evals"] is further than MaxDrift from its value at
\* the construction of the sweep
WithinDrift ==
    \A t \in DOMAIN data_evals.at :
        EvalsArray(parameters_counts, evals_count).at[t] - data_evals.at[t] <= MaxDrift

\* the labels of the canonical list as arguments
KnownLabelArgs ==
    {PyTuple(BareProductStatesLabels(subsystem_dims)[i]) :
        i \in 1..Dimension(subsystem_dims)}

InitEnergies ==
    InitMixinHost({<<1, 2>>}, GridShapes, { << <<6, -8>>, <<-8, 6>> >> }, {FALSE})

NextEnergies ==
    \/ CallGenerateLookup
    \/ \E key \in SliceKeys : PreSlice(key)
    \/ \E d \in 0..(evals_count - 1), subtract_ground \in BOOLEAN,
          param_indices \in ParamArgs :
          /\ WithinDrift
          /\ CallMixinEnergyByDressedIndex(d, subtract_ground, param_indices)
    \/ \E bare_labels \in KnownLabelArgs, subtract_ground \in BOOLEAN,
          param_indices \in ParamArgs :
          CallMixinEnergyByBareIndex(bare_labels, subtract_ground, param_indices)

SpecEnergies == InitEnergies /\ [][NextEnergies]_vars

(***************************************************************************)
(* Claim on the energy queries and the eigenvalue table (SpecEnergies)     *)
(***************************************************************************)
EnergyQueries == {"energy_by_dressed_index", "energy_by_bare_index"}

\* C21: energy_by_dressed_index and energy_by_bare_index, with
\* subtract_ground set or not and with a full or partial parameter
\* specification, leave the stored dressed eigenvalue table unchanged, so
\* repeating the same query on the same state returns the same energies.
C21_EnergyQueriesReadOnly ==
    [][("SpectrumLookupMixin" \in host /\ last_op' \in EnergyQueries) =>
          /\ data_evals' = data_evals
          /\ (/\ last_op = last_op'
              /\ last_args = last_args'
              /\ Truthy(last_args.param_indices)
              /\ result.kind # "raise") => result' = result]_vars

(***************************************************************************)
(* Claim on the frame of run() (SpecBuild)                                 *)
(***************************************************************************)
\* C22: the bare-indexed mapper does not mutate the overlap matrix or the
\* dressed spectral data it reads; SpectrumLookup.run() changes only the
\* canonical bare-label list and the dressed-index table.
C22_RunChangesOnlyItsTables ==
    [][("SpectrumLookup" \in host /\ last_op' = "run") =>
          /\ state_table' = state_table
          /\ energy_table' = energy_table
          /\ bare_specdata_list' = bare_specdata_list
          /\ UNCHANGED <<dcpl_vars, host, subsystem_dims, out_of_sync, io_vars, sweep_vars>>
          /\ dressed_indices' = GenerateMappings(state_table', Dimension(subsystem_dims))]_vars

\* a run that assigned a dressed index over eigenvectors that are not zero
C22_Witness ==
    /\ "SpectrumLookup" \in host
    /\ last_op = "run"
    /\ state_table[1] = << <<6, -8>>, <<-8, 6>> >>
    /\ dressed_indices[1] = <<1, 0>>
    /\ canonical_bare_labels # Unset

(***************************************************************************)
(* Claim on the lookup failure of SpectrumLookup.bare_index (Spec)         *)
(***************************************************************************)
\* C24: SpectrumLookup.bare_index, called with a dressed index that occurs
\* at no bare position of the table at the given parameter index, signals
\* the failure by raising a lookup-failure error and not silently.
C24_LookupNotFoundRaises ==
    (/\ "SpectrumLookup" \in host
     /\ last_op = "bare_index"
     /\ last_args.target = "self"
     /\ ~out_of_sync
     /\ dressed_indices # Unset
     /\ last_args.param_indices.items[1] < Len(dressed_indices)
     /\ \A b \in 1..Dimension(subsystem_dims) :
           dressed_indices[last_args.param_indices.items[1] + 1][b] # last_args.d)
        => result.kind = "raise"

(***************************************************************************)
(* Claim on bare_productstate (SpecQueries)                                *)
(***************************************************************************)
\* the ket of the given length whose only nonzero component, a one, is at
\* position pos (from 0)
UnitKet(length, pos) == [k \in 1..length |-> IF k = pos + 1 THEN 1 ELSE 0]

\* for every label of the enumerated set of the dimensions, the product
\* state is the basis state at the label's row-major position
ProductStateAtRowMajorPosition(dims) ==
    \A pos \in 0..(SeqProduct(dims) - 1) :
        BareProductstate(dims, PyTuple(RowMajorLabel(pos, dims))) =
            ReturnedData([dims |-> dims, ket |-> UnitKet(SeqProduct(dims), pos)])

\* tuples of subsystem dimensions on which the product state is computed in
\* addition to those of the objects
ProductDims == {<<2, 2>>, <<2, 3>>, <<3, 2>>, <<2, 1, 2>>}

\* the recorded call of bare_productstate returned what the label and the
\* subsystem dimensions alone determine
ProductStateOfLabelAndDims ==
    /\ last_op = "bare_productstate" =>
          /\ result = BareProductstate(subsystem_dims, last_args.bare_labels)
          /\ InCanonicalList(last_args.bare_labels) =>
                result = ReturnedData(
                    [dims |-> subsystem_dims,
                     ket |-> UnitKet(Dimension(subsystem_dims),
                                     CanonicalPosition(last_args.bare_labels.items))])
    /\ ProductStateAtRowMajorPosition(subsystem_dims)
    /\ \A dims \in ProductDims : ProductStateAtRowMajorPosition(dims)

\* C25: bare_productstate(label) depends only on the label and the
\* subsystem dimensions: it never reads or changes the lookup table (it
\* works before the table is built), gives the same result whatever the
\* parameter context, and for a label of the enumerated set it is the basis
\* state of the full Hilbert space whose single nonzero component is at the
\* label's canonical (row-major) position.
C25_ProductStateIndependent ==
    /\ []ProductStateOfLabelAndDims
    /\ [][last_op' = "bare_productstate" => UNCHANGED object_vars]_vars

\* the product state of label (0, 1) on a pre-sliced sweep whose table has
\* not been generated
C25_Witness ==
    /\ "SpectrumLookupMixin" \in host
    /\ last_op = "bare_productstate"
    /\ data_dressed_indices = NoArray
    /\ current_param_indices # PySlice
    /\ last_args.bare_labels = PyTuple(<<0, 1>>)
    /\ result = ReturnedData([dims |-> <<1, 2>>, ket |-> <<0, 1>>])

(***************************************************************************)
(* Claim on the bare-indexed mapper over normalised kets (SpecMapper)      *)
(***************************************************************************)
\* C26: if every dressed row of the overlap matrix has total squared
\* magnitude at most 1, the bare-indexed mapper is injective as well: no two
\* bare positions are assigned the same dressed index, because two entries
\* of one row cannot both have squared magnitude above 0.5.
C26_BareIndexedInjective ==
    /\ Normalised =>
          \A d \in DressedRange : \A b1, b2 \in BareRange :
              (SquaredOverlap(d, b1) > OVERLAP_THRESHOLD
                  /\ SquaredOverlap(d, b2) > OVERLAP_THRESHOLD) => b1 = b2
    /\ (dressed_indices # Unset /\ Normalised) =>
          \A b1, b2 \in BareRange :
              (b1 # b2 /\ dressed_indices[1][b1 + 1] # None)
                  => dressed_indices[1][b1 + 1] # dressed_indices[1][b2 + 1]

\* two normalised kets that both overlap most with bare position 0: the
\* bare-indexed mapper gives the position to the first and leaves position 1
\* unassigned
C26_Witness ==
    /\ dressed_indices # Unset
    /\ Normalised
    /\ PointEvecs = << <<-8, 6>>, <<-8, 6>> >>
    /\ dressed_indices[1] = <<0, None>>

(***************************************************************************)
(* Specification SpecUnitary: both mappers on the eigenvectors of a full   *)
(* spectrum: square matrices of one and two states whose rows and columns  *)
(* all have squared norm 1, over amplitudes 0, +-0.6, +-0.8, +-1           *)
(***************************************************************************)
UnitaryAmps == {0, 6, -6, 8, -8, 10, -10}

UnitaryDims == {1, 2}

\* every row and every column of the square matrix has squared norm 1
RowsAndColumnsNormalised(evecs) ==
    /\ \A d \in 1..Len(evecs) : NormSquared(evecs[d]) = 100
    /\ \A b \in 1..Len(evecs) :
          NormSquared([d \in 1..Len(evecs) |-> evecs[d][b]]) = 100

InitUnitary ==
    /\ host = {"SpectrumLookup", "SpectrumLookupMixin"}
    /\ NoDcpl
    /\ subsystem_dims \in {<<n>> : n \in UnitaryDims}
    /\ out_of_sync = FALSE
    /\ evals_count = Dimension(subsystem_dims)
    /\ \E evecs \in [1..evals_count -> [1..evals_count -> UnitaryAmps]] :
          /\ RowsAndColumnsNormalised(evecs)
          /\ state_table = <<evecs>>
          /\ data_evecs = EvecsArray(<<1>>, evals_count, [t \in {<<0>>} |-> evecs])
    /\ energy_table = Unset
    /\ bare_specdata_list = Unset
    /\ canonical_bare_labels = Unset
    /\ dressed_indices = Unset
    /\ io_data = NoIOData
    /\ restored = NoInstance
    /\ parameters_counts = <<1>>
    /\ data_evals = NoArray
    /\ data_bare_evecs = Unset
    /\ data_bare_evals = Unset
    /\ data_dressed_indices = NoArray
    /\ current_param_indices = PySlice
    /\ ignore_hybridization \in BOOLEAN
    /\ Idle

SpecUnitary == InitUnitary /\ [][NextMapper]_vars

\* C27: for a square overlap matrix in which every row and every column has
\* total squared magnitude 1 and with the override off, the bare-indexed
\* mapper and the injective mapper produce the same table from bare
\* positions to dressed indices.
C27_MappersAgreeOnUnitary ==
    (/\ pc = "done"
     /\ dressed_indices # Unset
     /\ ~ignore_hybridization
     /\ evals_count = Dimension(subsystem_dims)
     /\ RowsAndColumnsNormalised(PointEvecs)) => result.val = dressed_indices[1]

\* a rotation that swaps the two states
C27_Witness ==
    /\ pc = "done"
    /\ ~ignore_hybridization
    /\ PointEvecs = << <<6, 8>>, <<8, -6>> >>
    /\ dressed_indices[1] = <<1, 0>>
    /\ result.val = <<1, 0>>

(***************************************************************************)
(* Claims on the current parameter indices of the host (SpecQueries)       *)
(***************************************************************************)
PreSlicingQueries == {"energy_by_dressed_index", "bare_eigenstates", "bare_eigenvals"}

ReturnedSuccessfully ==
    /\ "SpectrumLookupMixin" \in host
    /\ last_op \in PreSlicingQueries
    /\ result.kind # "raise"

\* the eigenvalues of the whole grid
WholeGridEigenvals == ReturnedEnergies(NumpyIndex(data_evals, <<SliceAll>>))

\* C28: after energy_by_dressed_index, bare_eigenstates or bare_eigenvals
\* has returned successfully the stored current parameter indices are the
\* all-axes slice, whatever they were before and whether or not indices were
\* passed; a query made next without explicit indices (here eigenvals) sees
\* the whole grid, not the pre-sliced one.
C28_PreSliceConsumed ==
    /\ [](ReturnedSuccessfully => current_param_indices = PySlice)
    /\ [][(/\ ReturnedSuccessfully
           /\ last_op' = "eigenvals"
           /\ ~Truthy(last_args'.param_indices)
           /\ ~out_of_sync) => result' = WholeGridEigenvals]_vars

\* bare_eigenvals without indices has returned the eigenvalues of the
\* pre-sliced point (0, 0) and has left the all-axes slice
C28_Witness ==
    /\ "SpectrumLookupMixin" \in host
    /\ last_op = "bare_eigenvals"
    /\ last_args.param_indices = PyNone
    /\ result = ReturnedEnergies(NumpyIndex(data_bare_evals[1], <<0, 0>>))
    /\ result # ReturnedEnergies(NumpyIndex(data_bare_evals[1], <<SliceAll>>))
    /\ current_param_indices = PySlice

IndexQueries == {"dressed_index", "bare_index", "eigensys", "eigenvals"}

\* C29: SpectrumLookupMixin.dressed_index, bare_index, eigensys and eigenvals
\* change no state of the host: the dressed-index table, the eigensystem
\* tables and the current parameter indices are the same after the call as
\* before it, whether the call returns a result, returns None or raises.
C29_IndexQueriesChangeNothing ==
    [][("SpectrumLookupMixin" \in host /\ last_op' \in IndexQueries)
          => UNCHANGED object_vars]_vars

\* a bare_index that raised under a pre-sliced point, the pre-slicing kept
C29_Witness ==
    /\ "SpectrumLookupMixin" \in host
    /\ last_op = "bare_index"
    /\ result.kind = "raise"
    /\ ~out_of_sync
    /\ data_dressed_indices # NoArray
    /\ current_param_indices = PyTuple(<<0, 0>>)

(***************************************************************************)
(* Dcpl: the index of a wavefunction coefficient and the indices of the    *)
(* three degrees of freedom                                                *)
(***************************************************************************)
MaxDcplDim == 3

phi_hilbertdim == p0

theta_hilbertdim == q0

varphi_hilbertdim == N0

\* Dcpl.hilbertdim
hilbertdim == phi_hilbertdim * theta_hilbertdim * varphi_hilbertdim

\* a combination that uses the phi dimension where the theta dimension belongs
TensorIndexByPhi(index_phi, index_theta, index_varphi) ==
    (index_phi * phi_hilbertdim + index_theta) * varphi_hilbertdim + index_varphi

\* Dcpl._tensor_index
TensorIndex(index_phi, index_theta, index_varphi) ==
    (index_phi * theta_hilbertdim + index_theta) * varphi_hilbertdim + index_varphi

\* Dcpl._tensor_index_inv; // and % on non-negative ints
TensorIndexInv(index_evec) ==
    LET index_varphi == index_evec % varphi_hilbertdim
        index_temp == index_evec \div varphi_hilbertdim
        index_theta == index_temp % theta_hilbertdim
        index_phi == index_temp \div theta_hilbertdim
    IN  <<index_phi, index_theta, index_varphi>>

CallTensorIndex(index_phi, index_theta, index_varphi) ==
    /\ "Dcpl" \in host
    /\ Query("_tensor_index",
             Args(PyTuple(<<index_phi, index_theta, index_varphi>>), None, FALSE,
                  None, PyNone, "self"),
             ReturnedInt(TensorIndex(index_phi, index_theta, index_varphi)))

CallTensorIndexInv(index_evec) ==
    /\ "Dcpl" \in host
    /\ Query("_tensor_index_inv",
             Args(PyNone, index_evec, FALSE, None, PyNone, "self"),
             ReturnedLabel(TensorIndexInv(index_evec)))

CallHilbertdim ==
    /\ "Dcpl" \in host
    /\ Query("hilbertdim", NoArgs, ReturnedInt(hilbertdim))

(***************************************************************************)
(* Specification SpecDcpl: the two index conversions of a Dcpl of every    *)
(* size up to MaxDcplDim per degree of freedom, on indices inside and      *)
(* outside the ranges                                                      *)
(***************************************************************************)
InitDcpl ==
    /\ host = {"Dcpl"}
    /\ p0 \in 1..MaxDcplDim
    /\ q0 \in 1..MaxDcplDim
    /\ N0 \in 1..MaxDcplDim
    /\ subsystem_dims = <<>>
    /\ out_of_sync = FALSE
    /\ NoLookup
    /\ parameters_counts = <<>>
    /\ evals_count = 0
    /\ data_evecs = NoArray
    /\ data_evals = NoArray
    /\ data_bare_evecs = Unset
    /\ data_bare_evals = Unset
    /\ data_dressed_indices = NoArray
    /\ current_param_indices = PySlice
    /\ ignore_hybridization = FALSE
    /\ Idle

NextDcpl ==
    \/ \E index_phi \in 0..p0, index_theta \in 0..q0, index_varphi \in 0..N0 :
          CallTensorIndex(index_phi, index_theta, index_varphi)
    \/ \E index_evec \in 0..hilbertdim : CallTensorIndexInv(index_evec)
    \/ CallHilbertdim

SpecDcpl == InitDcpl /\ [][NextDcpl]_vars

\* the indices passed to _tensor_index are inside the three ranges
InRangeIndices ==
    /\ last_args.bare_labels.items[1] < p0
    /\ last_args.bare_labels.items[2] < q0
    /\ last_args.bare_labels.items[3] < N0

\* the labels (i, j, k) of dimensions (p0, q0, N0) in row-major order
RowMajorLabels == GenerateBareLabels(<<p0, q0, N0>>)

\* C30: on in-range indices _tensor_index and _tensor_index_inv are mutually
\* inverse: _tensor_index(i, j, k) lies in 0..hilbertdim()-1, is the
\* row-major position of (i, j, k) for the dimensions (p0, q0, N0), and
\* _tensor_index_inv takes it back to (i, j, k); for 0 <= n < hilbertdim(),
\* _tensor_index(*_tensor_index_inv(n)) = n.
C30_TensorIndexInverse ==
    /\ (last_op = "_tensor_index" /\ InRangeIndices) =>
          /\ result.val \in 0..(hilbertdim - 1)
          /\ RowMajorLabels[result.val + 1] = last_args.bare_labels.items
          /\ TensorIndexInv(result.val) = last_args.bare_labels.items
    /\ (last_op = "_tensor_index_inv" /\ last_args.d < hilbertdim) =>
          /\ result.val[1] \in 0..(p0 - 1)
          /\ result.val[2] \in 0..(q0 - 1)
          /\ result.val[3] \in 0..(N0 - 1)
          /\ TensorIndex(result.val[1], result.val[2], result.val[3]) = last_args.d

\* (1, 2, 0) of dimensions (2, 3, 2) is coefficient 10
C30_Witness ==
    /\ <<p0, q0, N0>> = <<2, 3, 2>>
    /\ last_op = "_tensor_index"
    /\ last_args.bare_labels.items = <<1, 2, 0>>
    /\ result.val = 10

(***************************************************************************)
(* generate_lookup with the grid points taken in any order: one run of     *)
(* _generate_single_mapping per grid point, each with locals of its own,   *)
(* their steps interleaved                                                 *)
(***************************************************************************)
\* a mapper that has not been called yet
WaitingMapper ==
    [pc |-> "waiting", overlap_matrix |-> Unset, dressed_indices |-> Unset,
     dressed_index |-> 0]

\* the first grid point
Origin == [i \in 1..Len(parameters_counts) |-> 0]

\* generate_lookup up to its loop: the empty array of mappings
AnyOrderBegin ==
    /\ "SpectrumLookupMixin" \in host
    /\ pc = "ready"
    /\ lookup_rows' = [index \in Points(parameters_counts) |-> Unset]
    /\ mappers' = [index \in Points(parameters_counts) |-> WaitingMapper]
    /\ pc' = "unordered"
    /\ Called("generate_lookup", NoArgs, NoResult)
    /\ UNCHANGED <<dcpl_vars, host, subsystem_dims, out_of_sync, lookup_vars, io_vars,
                   sweep_vars, lookup_indices, mapper_calls, overlap_matrix, mapping,
                   dressed_index>>

\* what a step of the mapper of one grid point leaves alone
PointMapperFrame ==
    UNCHANGED <<dcpl_vars, host, subsystem_dims, out_of_sync, lookup_vars, io_vars,
                sweep_vars, lookup_indices, mapper_calls, overlap_matrix, mapping,
                dressed_index, pc, call_vars>>

\* a mapper that takes the eigenvectors of the first grid point whatever its
\* own
PointMapperBeginAtOrigin(index) ==
    /\ pc = "unordered"
    /\ mappers[index].pc = "waiting"
    /\ mappers' =
          [mappers EXCEPT ![index] =
              [pc |-> "loop",
               overlap_matrix |-> ConvertEvecsToNdarray(EvecsAt(data_evecs, Origin)),
               dressed_indices |-> [pos \in 1..Dimension(subsystem_dims) |-> None],
               dressed_index |-> 0]]
    /\ UNCHANGED lookup_rows
    /\ PointMapperFrame

\* self._generate_single_mapping(index), up to the loop
PointMapperBegin(index) ==
    /\ pc = "unordered"
    /\ mappers[index].pc = "waiting"
    /\ mappers' =
          [mappers EXCEPT ![index] =
              [pc |-> "loop",
               overlap_matrix |-> ConvertEvecsToNdarray(EvecsAt(data_evecs, index)),
               dressed_indices |-> [pos \in 1..Dimension(subsystem_dims) |-> None],
               dressed_index |-> 0]]
    /\ UNCHANGED lookup_rows
    /\ PointMapperFrame

\* one iteration of its loop
PointMapperIterate(index) ==
    /\ pc = "unordered"
    /\ mappers[index].pc = "loop"
    /\ mappers[index].dressed_index < evals_count
    /\ LET mp == mappers[index]
           st == MixinMappingStep(mp.overlap_matrix, mp.dressed_indices,
                                  mp.dressed_index, ignore_hybridization)
       IN  mappers' =
              [mappers EXCEPT ![index] =
                  [pc |-> "loop",
                   overlap_matrix |-> st.overlap_matrix,
                   dressed_indices |-> st.dressed_indices,
                   dressed_index |-> mp.dressed_index + 1]]
    /\ UNCHANGED lookup_rows
    /\ PointMapperFrame

\* its return, and dressed_indices[index] = <the returned array>
PointMapperReturn(index) ==
    /\ pc = "unordered"
    /\ mappers[index].pc = "loop"
    /\ mappers[index].dressed_index >= evals_count
    /\ lookup_rows' = [lookup_rows EXCEPT ![index] = mappers[index].dressed_indices]
    /\ mappers' = [mappers EXCEPT ![index].pc = "done"]
    /\ PointMapperFrame

\* every grid point is mapped: generate_lookup returns the dense array, which
\* the host stores as _data["dressed_indices"]
AnyOrderReturn ==
    /\ pc = "unordered"
    /\ \A index \in Points(parameters_counts) : mappers[index].pc = "done"
    /\ LET lookup == DenseLookup(lookup_rows, parameters_counts, Dimension(subsystem_dims))
       IN  /\ data_dressed_indices' = lookup
           /\ result' = ReturnedArray(lookup)
    /\ pc' = "ready"
    /\ UNCHANGED <<dcpl_vars, host, subsystem_dims, out_of_sync, lookup_vars, io_vars,
                   parameters_counts, data_evecs, data_evals, data_bare_evecs,
                   data_bare_evals, evals_count, ignore_hybridization,
                   current_param_indices, lookup_indices, lookup_rows, mapper_calls,
                   mappers, overlap_matrix, mapping, dressed_index, last_op, last_args>>

(***************************************************************************)
(* Specification SpecAnyOrder: the steps of the per-point mappers in every *)
(* interleaving, over grids of two and three points                        *)
(***************************************************************************)
AnyOrderShapes == GridShapes \cup {<<3>>}

InitAnyOrder == InitMixinHost(LookupDims, AnyOrderShapes, EvecsMenu, BOOLEAN)

NextAnyOrder ==
    \/ AnyOrderBegin
    \/ \E index \in Points(parameters_counts) :
          \/ PointMapperBegin(index)
          \/ PointMapperIterate(index)
          \/ PointMapperReturn(index)
    \/ AnyOrderReturn

SpecAnyOrder == InitAnyOrder /\ [][NextAnyOrder]_vars

\* the table that generate_lookup builds in the order of the Cartesian
\* product
SequentialLookup ==
    GenerateLookup(data_evecs, parameters_counts, Dimension(subsystem_dims),
                   evals_count, ignore_hybridization)

\* a step of the mapper of the grid point index
StepOf(index) == mappers'[index] # mappers[index]

\* C23: the table build does not depend on the order or interleaving in
\* which the grid points are processed: the per-point mappers, run in any
\* order or interleaved, yield the table of the sequential order; a step of
\* the mapper of one point changes neither the stored eigenvectors nor the
\* locals of another point's mapper, and writes no slice of the output but
\* its own.
C23_OrderIndependent ==
    /\ [](GenerateLookupReturned => result.val = SequentialLookup)
    /\ [][(pc = "unordered" /\ pc' = "unordered") =>
            \A index \in Points(parameters_counts) :
                StepOf(index) =>
                    /\ data_evecs' = data_evecs
                    /\ \A other \in Points(parameters_counts) \ {index} :
                          /\ mappers'[other] = mappers[other]
                          /\ lookup_rows'[other] = lookup_rows[other]]_vars

\* the second of two grid points is mapped and stored while the mapper of
\* the first is in the middle of its loop
C23_Witness ==
    /\ pc = "unordered"
    /\ parameters_counts = <<2>>
    /\ mappers[<<0>>].pc = "loop"
    /\ mappers[<<0>>].dressed_index = 1
    /\ mappers[<<1>>].pc = "done"
    /\ lookup_rows[<<1>>] = <<1, 0>>
    /\ lookup_rows[<<0>>] = Unset

====
